---- MODULE Spec2Model ----
(***************************************************************************)
(* CronGuard OSS: the monitor store (src/lib/storage.ts over the SQL       *)
(* statements of src/lib/db.ts), the status engine and the schedule parser *)
(* (lib/types.ts) and the in-memory rate limiter (src/lib/rate-limit.ts).  *)
(*                                                                         *)
(* Time is Date.now(): an integer number of milliseconds.  Timestamps are  *)
(* stored as ISO-8601 text.  A timestamp text is modelled as the sequence  *)
(*     << seconds, c1, c2, ... >>                                          *)
(* whose head stands for the fixed-width prefix "YYYY-MM-DDTHH:mm:ss"      *)
(* (fixed width: its text order is the numeric order of the seconds) and   *)
(* whose tail holds the character codes that follow it (".", the fraction  *)
(* digits, "Z").                                                           *)
(*                                                                         *)
(* A nullable value is None (SQL NULL, JS null/undefined) or Some(v).      *)
(***************************************************************************)
EXTENDS Integers, Sequences, FiniteSets, TLC

VARIABLES now, monitors, pings, nextMonitorId, nextPingId, served, rateLimitMap, attempts,
          pending, sweep, last

vars == <<now, monitors, pings, nextMonitorId, nextPingId, served, rateLimitMap, attempts,
          pending, sweep, last>>

----------------------------------------------------------------------------
(* Bounds *)

MaxMinute == 2
MaxMonitors == 2
MaxPings == 5
MaxRequests == 3
MaxAttempts == 7
MaxRateMinute == 1
MaxRateIds == 1
MaxPingRequests == 4
MaxPending == 1
MaxTokens == 2
MaxStatusMinute == 16

----------------------------------------------------------------------------
(* Nullable values *)

None == <<>>
Some(v) == <<v>>
IsSome(o) == Len(o) = 1
Get(o) == o[1]
OrElse(o, d) == IF IsSome(o) THEN Get(o) ELSE d

SetMin(S) == CHOOSE x \in S : \A y \in S : x <= y

----------------------------------------------------------------------------
(* Clock and timestamp texts *)

MsPerMinute == 60 * 1000

\* the instants at which the clock is observed: whole minutes for the store,
\* and each whole minute and the millisecond after it where a strict
\* comparison of instants decides the outcome
TimePoints == { m * MsPerMinute : m \in 0..MaxMinute }
RateTimePoints == { m * MsPerMinute + e : m \in 0..MaxRateMinute, e \in {0, 1} }
StatusTimePoints == { m * MsPerMinute + e : m \in 0..MaxStatusMinute, e \in {0, 1} }

DOT == 46
ZED == 90
DigitCode(d) == 48 + d

\* Date.prototype.toISOString: always three fraction digits.
toISOString(t) ==
  << t \div 1000, DOT, DigitCode((t % 1000) \div 100), DigitCode((t % 100) \div 10),
     DigitCode(t % 10), ZED >>

\* A client-written timestamp without a fraction, e.g. "2024-01-15T10:00:00Z".
isoNoFraction(t) == << t \div 1000, ZED >>

\* new Date(text).getTime()
DateParse(s) ==
  LET frac(k) == IF Len(s) >= k + 3 THEN s[k + 2] - 48 ELSE 0
  IN  s[1] * 1000 + (IF Len(s) = 2 THEN 0 ELSE 100 * frac(1) + 10 * frac(2) + frac(3))

\* SQLite's `a <= b` on TEXT values (BINARY collation: memcmp, a proper prefix is smaller).
TextLeq(a, b) ==
  LET n == IF Len(a) < Len(b) THEN Len(a) ELSE Len(b)
      diff == { k \in 1..n : a[k] # b[k] }
  IN  IF diff = {} THEN Len(a) <= Len(b) ELSE a[SetMin(diff)] < b[SetMin(diff)]

----------------------------------------------------------------------------
(* Schedule parser (lib/types.ts).  A schedule is a sequence of characters. *)

UpperChars == <<"A","B","C","D","E","F","G","H","I","J","K","L","M","N","O","P","Q","R","S","T","U","V","W","X","Y","Z">>
LowerChars == <<"a","b","c","d","e","f","g","h","i","j","k","l","m","n","o","p","q","r","s","t","u","v","w","x","y","z">>
DigitChars == <<"0","1","2","3","4","5","6","7","8","9">>
SpaceChars == {" ", "\t", "\n"}

DigitValue(c) == (CHOOSE k \in 1..10 : DigitChars[k] = c) - 1

toLowerCase(s) ==
  [ i \in 1..Len(s) |->
      IF \E k \in 1..26 : UpperChars[k] = s[i]
      THEN LowerChars[CHOOSE k \in 1..26 : UpperChars[k] = s[i]]
      ELSE s[i] ]

\* the literal lit occurs in s at position i
LitAt(s, i, lit) ==
  /\ i + Len(lit) - 1 <= Len(s)
  /\ \A k \in 1..Len(lit) : s[i + k - 1] = lit[k]

\* String.prototype.includes
includes(s, lit) == \E i \in 1..(Len(s) + 1) : LitAt(s, i, lit)

\* end (exclusive) of the longest run of characters of class that starts at i
RunEnd(s, i, class) ==
  CHOOSE j \in i..(Len(s) + 1) :
    /\ \A k \in i..(j - 1) : s[k] \in class
    /\ (j = Len(s) + 1 \/ s[j] \notin class)

DigitSet == { DigitChars[k] : k \in 1..10 }

RECURSIVE parseIntFrom(_, _, _, _)
\* parseInt of the digit run s[i..j-1], accumulated left to right
parseIntFrom(s, i, j, acc) ==
  IF i >= j THEN acc ELSE parseIntFrom(s, i + 1, j, 10 * acc + DigitValue(s[i]))

lit_every == <<"e","v","e","r","y">>
lit_min == <<"m","i","n">>
lit_hour == <<"h","o","u","r">>
lit_every_minute == <<"e","v","e","r","y"," ","m","i","n","u","t","e">>
lit_every_hour == <<"e","v","e","r","y"," ","h","o","u","r">>
lit_every_day == <<"e","v","e","r","y"," ","d","a","y">>
lit_daily == <<"d","a","i","l","y">>
lit_every_week == <<"e","v","e","r","y"," ","w","e","e","k">>
lit_weekly == <<"w","e","e","k","l","y">>

\* /every\s+(\d+)\s*<unit>/ tried at position i: Some(captured number) or None.
\* \s, \d and the first letter of the unit are disjoint classes, so the greedy
\* runs are the only way the pattern can match from i.
NumberedAt(s, i, unit) ==
  IF ~LitAt(s, i, lit_every) THEN None
  ELSE LET a == i + Len(lit_every)
           b == RunEnd(s, a, SpaceChars)
           c == RunEnd(s, b, DigitSet)
           d == RunEnd(s, c, SpaceChars)
       IN  IF b > a /\ c > b /\ LitAt(s, d, unit)
           THEN Some(parseIntFrom(s, b, c, 0))
           ELSE None

\* String.prototype.match without the g flag: the leftmost match
NumberedMatch(s, unit) ==
  LET hits == { i \in 1..Len(s) : IsSome(NumberedAt(s, i, unit)) }
  IN  IF hits = {} THEN None ELSE NumberedAt(s, SetMin(hits), unit)

\* variant: the numbered hours are tried before the numbered minutes
parseScheduleInterval_hoursFirst(schedule) ==
  LET lower == toLowerCase(schedule)
      minutesMatch == NumberedMatch(lower, lit_min)
      hoursMatch == NumberedMatch(lower, lit_hour)
  IN  IF IsSome(hoursMatch) THEN Get(hoursMatch) * 60
      ELSE IF IsSome(minutesMatch) THEN Get(minutesMatch)
      ELSE IF includes(lower, lit_every_minute) THEN 1
      ELSE IF includes(lower, lit_every_hour) THEN 60
      ELSE IF includes(lower, lit_every_day) \/ includes(lower, lit_daily) THEN 24 * 60
      ELSE IF includes(lower, lit_every_week) \/ includes(lower, lit_weekly) THEN 7 * 24 * 60
      ELSE 24 * 60

parseScheduleInterval(schedule) ==
  LET lower == toLowerCase(schedule)
      minutesMatch == NumberedMatch(lower, lit_min)
      hoursMatch == NumberedMatch(lower, lit_hour)
  IN  IF IsSome(minutesMatch) THEN Get(minutesMatch)
      ELSE IF includes(lower, lit_every_minute) THEN 1
      ELSE IF IsSome(hoursMatch) THEN Get(hoursMatch) * 60
      ELSE IF includes(lower, lit_every_hour) THEN 60
      ELSE IF includes(lower, lit_every_day) \/ includes(lower, lit_daily) THEN 24 * 60
      ELSE IF includes(lower, lit_every_week) \/ includes(lower, lit_weekly) THEN 7 * 24 * 60
      ELSE 24 * 60

----------------------------------------------------------------------------
(* Status engine (lib/types.ts) *)

\* A stored monitor row is mapped to the Monitor object the engine reads.
rowToMonitor(row) ==
  [ id |-> row.id, name |-> row.name, schedule |-> row.schedule,
    intervalMinutes |-> row.interval_minutes, graceMinutes |-> row.grace_minutes,
    lastPing |-> row.last_ping, createdAt |-> row.created_at,
    paused |-> (row.paused = 1), pausedAt |-> row.paused_at,
    pausedUntil |-> row.paused_until, pauseReason |-> row.pause_reason ]

\* variant: a monitor never pinged is timed from its creation
getMonitorStatus_sinceCreation(monitor, t) ==
  IF monitor.paused THEN "paused"
  ELSE LET lastPingTime == DateParse(OrElse(monitor.lastPing, monitor.createdAt))
           graceMs == monitor.graceMinutes * 60 * 1000
           intervalMinutes == IF monitor.intervalMinutes # 0
                              THEN monitor.intervalMinutes
                              ELSE parseScheduleInterval(monitor.schedule)
           intervalMs == intervalMinutes * 60 * 1000
           expectedNextPing == lastPingTime + intervalMs
           timeSinceExpected == t - expectedNextPing
       IN  IF timeSinceExpected > graceMs THEN "down"
           ELSE IF timeSinceExpected > 0 THEN "late"
           ELSE "healthy"

\* variant: down as soon as the grace period is used up (>= for >)
getMonitorStatus_graceInclusive(monitor, t) ==
  IF monitor.paused THEN "paused"
  ELSE IF ~IsSome(monitor.lastPing) THEN "down"
  ELSE LET lastPingTime == DateParse(Get(monitor.lastPing))
           graceMs == monitor.graceMinutes * 60 * 1000
           intervalMinutes == IF monitor.intervalMinutes # 0
                              THEN monitor.intervalMinutes
                              ELSE parseScheduleInterval(monitor.schedule)
           intervalMs == intervalMinutes * 60 * 1000
           expectedNextPing == lastPingTime + intervalMs
           timeSinceExpected == t - expectedNextPing
       IN  IF timeSinceExpected >= graceMs THEN "down"
           ELSE IF timeSinceExpected > 0 THEN "late"
           ELSE "healthy"

\* variant: a pause whose pausedUntil has passed is treated as over
getMonitorStatus_lazyResume(monitor, t) ==
  IF monitor.paused
     /\ ~(IsSome(monitor.pausedUntil) /\ t >= DateParse(Get(monitor.pausedUntil)))
  THEN "paused"
  ELSE IF ~IsSome(monitor.lastPing) THEN "down"
  ELSE LET lastPingTime == DateParse(Get(monitor.lastPing))
           graceMs == monitor.graceMinutes * 60 * 1000
           intervalMinutes == IF monitor.intervalMinutes # 0
                              THEN monitor.intervalMinutes
                              ELSE parseScheduleInterval(monitor.schedule)
           intervalMs == intervalMinutes * 60 * 1000
           expectedNextPing == lastPingTime + intervalMs
           timeSinceExpected == t - expectedNextPing
       IN  IF timeSinceExpected > graceMs THEN "down"
           ELSE IF timeSinceExpected > 0 THEN "late"
           ELSE "healthy"

\* getMonitorStatus with Date.now() = t.  Both branches of the pausedUntil
\* test return 'paused'.
getMonitorStatus(monitor, t) ==
  IF monitor.paused
  THEN IF IsSome(monitor.pausedUntil) /\ t >= DateParse(Get(monitor.pausedUntil))
       THEN "paused"
       ELSE "paused"
  ELSE IF ~IsSome(monitor.lastPing) THEN "down"
  ELSE LET lastPingTime == DateParse(Get(monitor.lastPing))
           graceMs == monitor.graceMinutes * 60 * 1000
           intervalMinutes == IF monitor.intervalMinutes # 0
                              THEN monitor.intervalMinutes
                              ELSE parseScheduleInterval(monitor.schedule)
           intervalMs == intervalMinutes * 60 * 1000
           expectedNextPing == lastPingTime + intervalMs
           timeSinceExpected == t - expectedNextPing
       IN  IF timeSinceExpected > graceMs THEN "down"
           ELSE IF timeSinceExpected > 0 THEN "late"
           ELSE "healthy"

----------------------------------------------------------------------------
(* Inputs of the requests *)

MonitorIds == 1..MaxMonitors

Names == {"backup"}

sched_1_minutes == <<"E","v","e","r","y"," ","1"," ","m","i","n","u","t","e","s">>
sched_2_min == <<"e","v","e","r","y"," ","2","m","i","n">>

Schedules == {sched_1_minutes, sched_2_min}

Graces == {1}

Reasons == {None, Some("maintenance")}

\* `until` of POST /api/pause: absent, or a timestamp text as the client wrote it
\* (z.string().datetime() accepts it with or without a fraction).
UntilInputs == {None, Some(isoNoFraction(MsPerMinute)), Some(toISOString(MsPerMinute))}

NoUpdates ==
  [ name |-> None, schedule |-> None, graceMinutes |-> None, lastPing |-> None,
    paused |-> None, pausedAt |-> None, pausedUntil |-> None, pauseReason |-> None ]

\* the bodies PATCH /api/monitors passes on: updateMonitorSchema keeps only
\* name, schedule and graceMinutes
PatchUpdates ==
  { [NoUpdates EXCEPT !.name = n, !.schedule = s, !.graceMinutes = g] :
      n \in {None} \cup {Some(x) : x \in Names},
      s \in {None} \cup {Some(x) : x \in Schedules},
      g \in {None} \cup {Some(x) : x \in Graces} }

----------------------------------------------------------------------------
(* Prepared statements (src/lib/db.ts) as functions of the tables *)

Exists(id) == id \in DOMAIN monitors

\* variant: the pause never stores a resume time
pauseMonitorStmt_dropsUntil(row, pausedAt, pausedUntil, pauseReason) ==
  [row EXCEPT !.paused = 1, !.paused_at = pausedAt, !.paused_until = None,
              !.pause_reason = pauseReason]

\* variant: pausing also forgets the last ping
pauseMonitorStmt_clearsLastPing(row, pausedAt, pausedUntil, pauseReason) ==
  [row EXCEPT !.paused = 1, !.paused_at = pausedAt, !.paused_until = pausedUntil,
              !.pause_reason = pauseReason, !.last_ping = None]

\* UPDATE monitors SET paused = 1, paused_at, paused_until, pause_reason WHERE id
pauseMonitorStmt(row, pausedAt, pausedUntil, pauseReason) ==
  [row EXCEPT !.paused = 1, !.paused_at = pausedAt, !.paused_until = pausedUntil,
              !.pause_reason = pauseReason]

\* variant: only the flag is cleared
resumeMonitorStmt_flagOnly(row) == [row EXCEPT !.paused = 0]

\* UPDATE monitors SET paused = 0, paused_at = NULL, paused_until = NULL, pause_reason = NULL
resumeMonitorStmt(row) ==
  [row EXCEPT !.paused = 0, !.paused_at = None, !.paused_until = None, !.pause_reason = None]

\* SELECT id FROM monitors WHERE paused = 1 AND paused_until IS NOT NULL AND paused_until <= ?
getPausedMonitorsToResume(rows, nowText) ==
  { id \in DOMAIN rows :
      /\ rows[id].paused = 1
      /\ IsSome(rows[id].paused_until)
      /\ TextLeq(Get(rows[id].paused_until), nowText) }

\* variant: last_ping is written only while it is still NULL
updateMonitorLastPing_onlyFirst(row, timestamp) ==
  IF IsSome(row.last_ping) THEN row ELSE [row EXCEPT !.last_ping = Some(timestamp)]

\* variant: a paused monitor keeps its last_ping
updateMonitorLastPing_unlessPaused(row, timestamp) ==
  IF row.paused = 1 THEN row ELSE [row EXCEPT !.last_ping = Some(timestamp)]

\* UPDATE monitors SET last_ping = ? WHERE id = ?
updateMonitorLastPing(row, timestamp) == [row EXCEPT !.last_ping = Some(timestamp)]

\* variant: the foreign key does not cascade
pingsAfterDelete_noCascade(rows, id) == rows

\* DELETE FROM monitors WHERE id = ?, with pings.monitor_id ... ON DELETE CASCADE
pingsAfterDelete(rows, id) == SelectSeq(rows, LAMBDA p : p.monitor_id # id)

----------------------------------------------------------------------------
(* Initial state: an empty database, an empty rate-limit map *)

Init ==
  /\ now = 0
  /\ monitors = << >>
  /\ pings = << >>
  /\ nextMonitorId = 1
  /\ nextPingId = 1
  /\ served = 0
  /\ rateLimitMap = << >>
  /\ attempts = << >>
  /\ pending = << >>
  /\ sweep = None
  /\ last = [op |-> "init", id |-> 0, args |-> << >>, before |-> None, result |-> None]

StoreUnchanged == UNCHANGED <<monitors, pings, nextMonitorId, nextPingId, served>>
RateUnchanged == UNCHANGED <<rateLimitMap, attempts, pending, sweep>>

\* the Monitor object getMonitor(id) returns is abstracted to its derived
\* status: its other fields are the fields of the stored row
getMonitor(rows, id, t) ==
  IF id \in DOMAIN rows THEN Some(getMonitorStatus(rowToMonitor(rows[id]), t)) ELSE None

\* one more request is served (the number of requests explored is capped)
Served == served < MaxRequests /\ served' = served + 1

----------------------------------------------------------------------------
(* Operations of src/lib/storage.ts.  better-sqlite3 is synchronous, so each *)
(* function runs to completion without interleaving.                        *)

createMonitor(name, schedule, graceMinutes) ==
  /\ Served
  /\ nextMonitorId <= MaxMonitors
  /\ LET id == nextMonitorId
         row == [ id |-> id, name |-> name, schedule |-> schedule,
                  interval_minutes |-> parseScheduleInterval(schedule),
                  grace_minutes |-> graceMinutes, last_ping |-> None,
                  created_at |-> toISOString(now), paused |-> 0,
                  paused_at |-> None, paused_until |-> None, pause_reason |-> None ]
     IN  /\ monitors' = (id :> row) @@ monitors
         /\ nextMonitorId' = nextMonitorId + 1
         /\ last' = [op |-> "createMonitor", id |-> id,
                     args |-> <<name, schedule, graceMinutes>>, before |-> None, result |-> Some("down")]
  /\ UNCHANGED <<now, pings, nextPingId>>
  /\ RateUnchanged

updateMonitor(id, updates) ==
  /\ Served
  /\ IF ~Exists(id)
     THEN /\ last' = [op |-> "updateMonitor", id |-> id, args |-> << >>, before |-> None, result |-> None]
          /\ UNCHANGED monitors
     ELSE LET existing == rowToMonitor(monitors[id])
              schedule == OrElse(updates.schedule, existing.schedule)
              intervalMinutes == IF IsSome(updates.schedule) /\ Get(updates.schedule) # << >>
                                 THEN parseScheduleInterval(Get(updates.schedule))
                                 ELSE existing.intervalMinutes
              row == [ id |-> id,
                       name |-> OrElse(updates.name, existing.name),
                       schedule |-> schedule,
                       interval_minutes |-> intervalMinutes,
                       grace_minutes |-> OrElse(updates.graceMinutes, existing.graceMinutes),
                       last_ping |-> IF IsSome(updates.lastPing) THEN updates.lastPing
                                     ELSE existing.lastPing,
                       created_at |-> monitors[id].created_at,
                       paused |-> IF OrElse(updates.paused, existing.paused) THEN 1 ELSE 0,
                       paused_at |-> IF IsSome(updates.pausedAt) THEN updates.pausedAt
                                     ELSE existing.pausedAt,
                       paused_until |-> IF IsSome(updates.pausedUntil) THEN updates.pausedUntil
                                        ELSE existing.pausedUntil,
                       pause_reason |-> IF IsSome(updates.pauseReason) THEN updates.pauseReason
                                        ELSE existing.pauseReason ]
          IN  /\ monitors' = [monitors EXCEPT ![id] = row]
              /\ last' = [op |-> "updateMonitor", id |-> id, args |-> << >>,
                          before |-> None, result |-> getMonitor(monitors', id, now)]
  /\ UNCHANGED <<now, pings, nextMonitorId, nextPingId>>
  /\ RateUnchanged

deleteMonitor(id) ==
  /\ Served
  /\ monitors' = [ i \in DOMAIN monitors \ {id} |-> monitors[i] ]
  /\ pings' = pingsAfterDelete(pings, id)
  /\ last' = [op |-> "deleteMonitor", id |-> id, args |-> << >>, before |-> None, result |-> Some(Exists(id))]
  /\ UNCHANGED <<now, nextMonitorId, nextPingId>>
  /\ RateUnchanged

\* variant: no existence check; the ping row is inserted for whatever id was asked
recordPing_noExistenceCheck(id, success, duration, message, ip) ==
  /\ Served
  /\ nextPingId <= MaxPings
  /\ LET ping == [ id |-> nextPingId, timestamp |-> toISOString(now),
                   status |-> IF success THEN "success" ELSE "failure" ]
     IN  /\ pings' = Append(pings, [ id |-> ping.id, monitor_id |-> id,
                                     timestamp |-> ping.timestamp,
                                     status |-> ping.status, duration |-> duration,
                                     message |-> message, ip |-> ip ])
         /\ monitors' = [ i \in DOMAIN monitors |->
                            IF i = id THEN updateMonitorLastPing(monitors[i], ping.timestamp)
                            ELSE monitors[i] ]
         /\ nextPingId' = nextPingId + 1
         /\ last' = [op |-> "recordPing", id |-> id, args |-> <<success>>,
                     before |-> None, result |-> Some(ping)]
  /\ UNCHANGED <<now, nextMonitorId>>
  /\ RateUnchanged

recordPing(id, success, duration, message, ip) ==
  /\ Served
  /\ IF ~Exists(id)
     THEN /\ last' = [op |-> "recordPing", id |-> id, args |-> <<success>>, before |-> None, result |-> None]
          /\ UNCHANGED <<monitors, pings, nextPingId>>
     ELSE /\ nextPingId <= MaxPings
          /\ LET ping == [ id |-> nextPingId, timestamp |-> toISOString(now),
                           status |-> IF success THEN "success" ELSE "failure" ]
             IN  \* db.transaction: insertPing, then updateMonitorLastPing
                 /\ pings' = Append(pings, [ id |-> ping.id, monitor_id |-> id,
                                             timestamp |-> ping.timestamp,
                                             status |-> ping.status,
                                             duration |-> duration,
                                             message |-> message, ip |-> ip ])
                 /\ monitors' = [monitors EXCEPT ![id] = updateMonitorLastPing(@, ping.timestamp)]
                 /\ nextPingId' = nextPingId + 1
                 /\ last' = [op |-> "recordPing", id |-> id, args |-> <<success>>,
                             before |-> None, result |-> Some(ping)]
  /\ UNCHANGED <<now, nextMonitorId>>
  /\ RateUnchanged

pauseMonitor(id, reason, until) ==
  /\ Served
  /\ IF ~Exists(id)
     THEN /\ last' = [op |-> "pauseMonitor", id |-> id, args |-> <<reason, until>>,
                      before |-> None, result |-> None]
          /\ UNCHANGED monitors
     ELSE /\ monitors' = [monitors EXCEPT
                            ![id] = pauseMonitorStmt(@, Some(toISOString(now)), until, reason)]
          /\ last' = [op |-> "pauseMonitor", id |-> id, args |-> <<reason, until>>,
                      before |-> Some(monitors[id]),
                      result |-> getMonitor(monitors', id, now)]
  /\ UNCHANGED <<now, pings, nextMonitorId, nextPingId>>
  /\ RateUnchanged

resumeMonitor(id) ==
  /\ Served
  /\ IF ~Exists(id)
     THEN /\ last' = [op |-> "resumeMonitor", id |-> id, args |-> << >>, before |-> None, result |-> None]
          /\ UNCHANGED monitors
     ELSE /\ monitors' = [monitors EXCEPT ![id] = resumeMonitorStmt(@)]
          /\ last' = [op |-> "resumeMonitor", id |-> id, args |-> << >>,
                      before |-> Some(monitors[id]),
                      result |-> getMonitor(monitors', id, now)]
  /\ UNCHANGED <<now, pings, nextMonitorId, nextPingId>>
  /\ RateUnchanged

\* the ids of a set in the order the loop pushes them (the SELECT has no
\* ORDER BY; ids are listed ascending)
RECURSIVE SetToSeq(_)
SetToSeq(S) == IF S = {} THEN << >> ELSE <<SetMin(S)>> \o SetToSeq(S \ {SetMin(S)})

checkAndResumeMonitors ==
  /\ LET toResume == getPausedMonitorsToResume(monitors, toISOString(now))
     IN  /\ monitors' = [ i \in DOMAIN monitors |->
                            IF i \in toResume THEN resumeMonitorStmt(monitors[i])
                            ELSE monitors[i] ]
         /\ last' = [op |-> "checkAndResumeMonitors", id |-> 0, args |-> << >>,
                     before |-> None, result |-> SetToSeq(toResume)]
  /\ UNCHANGED <<now, pings, nextMonitorId, nextPingId>>
  /\ RateUnchanged

\* the sweep requested by a client of the storage module
requestedSweep == Served /\ checkAndResumeMonitors

\* GET /api/monitors?id=: a status read
readMonitor(id) ==
  /\ Served
  /\ last' = [op |-> "getMonitor", id |-> id, args |-> << >>,
              before |-> None, result |-> getMonitor(monitors, id, now)]
  /\ UNCHANGED <<now, monitors, pings, nextMonitorId, nextPingId>>
  /\ RateUnchanged

\* the wall clock advances to a later instant
advanceClock(points) ==
  /\ \E t \in points : t > now /\ now' = t
  /\ UNCHANGED last
  /\ StoreUnchanged
  /\ RateUnchanged

Tick == advanceClock(TimePoints)

----------------------------------------------------------------------------
(* The requests served by the store *)

CreateMonitor == \E n \in Names, s \in Schedules, g \in Graces : createMonitor(n, s, g)
UpdateMonitor == \E id \in MonitorIds, u \in PatchUpdates : updateMonitor(id, u)
DeleteMonitor == \E id \in MonitorIds : deleteMonitor(id)
RecordPing == \E id \in MonitorIds, success \in BOOLEAN : recordPing(id, success, None, None, None)
PauseMonitor == \E id \in MonitorIds, r \in Reasons, u \in UntilInputs : pauseMonitor(id, r, u)
ResumeMonitor == \E id \in MonitorIds : resumeMonitor(id)
Sweep == requestedSweep
ReadMonitor == \E id \in MonitorIds : readMonitor(id)

Next ==
  \/ CreateMonitor
  \/ UpdateMonitor
  \/ DeleteMonitor
  \/ RecordPing
  \/ PauseMonitor
  \/ ResumeMonitor
  \/ Sweep
  \/ ReadMonitor
  \/ Tick

Spec == Init /\ [][Next]_vars

----------------------------------------------------------------------------
(* Rate limiter (src/lib/rate-limit.ts): one entry per monitor id *)

WINDOW_MS == 60 * 1000
MAX_REQUESTS_PER_WINDOW == 5

\* the keys the limiter is asked about
RateIds == 1..MaxRateIds

\* variant: the limit is tested with > (a sixth request passes)
checkRateLimit_offByOne(monitorId) ==
  /\ Len(attempts) < MaxAttempts
  /\ LET hasEntry == monitorId \in DOMAIN rateLimitMap
         entry == rateLimitMap[monitorId]
         allowed == ~hasEntry \/ entry.resetAt < now \/ ~(entry.count > MAX_REQUESTS_PER_WINDOW)
         newEntry == IF ~hasEntry \/ entry.resetAt < now
                     THEN [count |-> 1, resetAt |-> now + WINDOW_MS]
                     ELSE IF allowed THEN [entry EXCEPT !.count = @ + 1] ELSE entry
     IN  /\ rateLimitMap' = IF allowed THEN (monitorId :> newEntry) @@ rateLimitMap
                            ELSE rateLimitMap
         /\ attempts' = Append(attempts, [id |-> monitorId, at |-> now, allowed |-> allowed])
         /\ last' = [op |-> "checkRateLimit", id |-> monitorId, args |-> << >>,
                     before |-> None,
                     result |-> Some([allowed |-> allowed,
                                      remaining |-> IF allowed
                                                    THEN MAX_REQUESTS_PER_WINDOW - newEntry.count
                                                    ELSE 0,
                                      resetAt |-> newEntry.resetAt])]
  /\ UNCHANGED <<now, pending, sweep>>
  /\ StoreUnchanged

checkRateLimit(monitorId) ==
  /\ Len(attempts) < MaxAttempts
  /\ LET hasEntry == monitorId \in DOMAIN rateLimitMap
         entry == rateLimitMap[monitorId]
     IN  IF ~hasEntry \/ entry.resetAt < now
         THEN \* no existing entry or window expired: create new entry
              LET newEntry == [count |-> 1, resetAt |-> now + WINDOW_MS]
                  result == [allowed |-> TRUE, remaining |-> MAX_REQUESTS_PER_WINDOW - 1,
                             resetAt |-> newEntry.resetAt]
              IN  /\ rateLimitMap' = (monitorId :> newEntry) @@ rateLimitMap
                  /\ attempts' = Append(attempts, [id |-> monitorId, at |-> now, allowed |-> TRUE])
                  /\ last' = [op |-> "checkRateLimit", id |-> monitorId, args |-> << >>,
                              before |-> None, result |-> Some(result)]
         ELSE IF entry.count >= MAX_REQUESTS_PER_WINDOW
         THEN LET result == [allowed |-> FALSE, remaining |-> 0, resetAt |-> entry.resetAt]
              IN  /\ UNCHANGED rateLimitMap
                  /\ attempts' = Append(attempts, [id |-> monitorId, at |-> now, allowed |-> FALSE])
                  /\ last' = [op |-> "checkRateLimit", id |-> monitorId, args |-> << >>,
                              before |-> None, result |-> Some(result)]
         ELSE LET result == [allowed |-> TRUE,
                             remaining |-> MAX_REQUESTS_PER_WINDOW - (entry.count + 1),
                             resetAt |-> entry.resetAt]
              IN  /\ rateLimitMap' = [rateLimitMap EXCEPT ![monitorId].count = @ + 1]
                  /\ attempts' = Append(attempts, [id |-> monitorId, at |-> now, allowed |-> TRUE])
                  /\ last' = [op |-> "checkRateLimit", id |-> monitorId, args |-> << >>,
                              before |-> None, result |-> Some(result)]
  /\ UNCHANGED <<now, pending, sweep>>
  /\ StoreUnchanged

\* the setInterval callback: entries whose window has expired are deleted
cleanupRateLimit ==
  /\ \E key \in DOMAIN rateLimitMap : rateLimitMap[key].resetAt < now
  /\ rateLimitMap' = [ key \in { k \in DOMAIN rateLimitMap : ~(rateLimitMap[k].resetAt < now) }
                         |-> rateLimitMap[key] ]
  /\ UNCHANGED <<now, attempts, pending, sweep, last>>
  /\ StoreUnchanged

CheckRateLimit == \E id \in RateIds : checkRateLimit(id)
RateTick == advanceClock(RateTimePoints)

RateNext ==
  \/ CheckRateLimit
  \/ cleanupRateLimit
  \/ RateTick

RateSpec == Init /\ [][RateNext]_vars

----------------------------------------------------------------------------
(* The ping endpoints (app/api/ping/[id]/route.ts).  After `await params`  *)
(* the GET handler runs synchronously to its response.  The POST handler   *)
(* checks the rate limit and reads the monitor, and when the request has a *)
(* body it then awaits request.json(): other requests are served before    *)
(* it records the ping and responds.                                       *)

\* variant: the limit is tested with >
rateLimitResult_offByOne(map, monitorId, t) ==
  IF monitorId \notin DOMAIN map \/ map[monitorId].resetAt < t
  THEN [allowed |-> TRUE, remaining |-> MAX_REQUESTS_PER_WINDOW - 1, resetAt |-> t + WINDOW_MS]
  ELSE IF map[monitorId].count > MAX_REQUESTS_PER_WINDOW
  THEN [allowed |-> FALSE, remaining |-> 0, resetAt |-> map[monitorId].resetAt]
  ELSE [allowed |-> TRUE,
        remaining |-> MAX_REQUESTS_PER_WINDOW - (map[monitorId].count + 1),
        resetAt |-> map[monitorId].resetAt]

\* checkRateLimit as a function of the map: the result and the map after it
rateLimitResult(map, monitorId, t) ==
  IF monitorId \notin DOMAIN map \/ map[monitorId].resetAt < t
  THEN [allowed |-> TRUE, remaining |-> MAX_REQUESTS_PER_WINDOW - 1, resetAt |-> t + WINDOW_MS]
  ELSE IF map[monitorId].count >= MAX_REQUESTS_PER_WINDOW
  THEN [allowed |-> FALSE, remaining |-> 0, resetAt |-> map[monitorId].resetAt]
  ELSE [allowed |-> TRUE,
        remaining |-> MAX_REQUESTS_PER_WINDOW - (map[monitorId].count + 1),
        resetAt |-> map[monitorId].resetAt]

rateLimitMapAfter(map, monitorId, t) ==
  IF monitorId \notin DOMAIN map \/ map[monitorId].resetAt < t
  THEN (monitorId :> [count |-> 1, resetAt |-> t + WINDOW_MS]) @@ map
  ELSE IF map[monitorId].count >= MAX_REQUESTS_PER_WINDOW
  THEN map
  ELSE [map EXCEPT ![monitorId].count = @ + 1]

\* Math.ceil(x / d)
CeilDiv(x, d) == -((-x) \div d)

\* Retry-After: Math.ceil((rateLimit.resetAt - Date.now()) / 1000)
retryAfter(rateLimit, t) == CeilDiv(rateLimit.resetAt - t, 1000)

\* the responses, by what the properties read of them
Response(status, retry, pingId, monitorStatus) ==
  [status |-> status, retryAfter |-> retry, pingId |-> pingId, monitorStatus |-> monitorStatus]

\* one more ping request is served
ServedPing == served < MaxPingRequests /\ served' = served + 1

\* the tables after recordPing(id, success) of an existing monitor
pingRow(id, success, duration, message, ip) ==
  [ id |-> nextPingId, monitor_id |-> id, timestamp |-> toISOString(now),
    status |-> IF success THEN "success" ELSE "failure",
    duration |-> duration, message |-> message, ip |-> ip ]

\* request bodies of POST: none, a valid body {success: false}, an invalid one
PingBodies == { None, Some([valid |-> TRUE, success |-> FALSE]),
                Some([valid |-> FALSE, success |-> TRUE]) }

\* GET /api/ping/[id]
pingGET(id) ==
  /\ ServedPing
  /\ LET rateLimit == rateLimitResult(rateLimitMap, id, now)
     IN  /\ rateLimitMap' = rateLimitMapAfter(rateLimitMap, id, now)
         /\ IF ~rateLimit.allowed
            THEN /\ last' = [op |-> "GET /api/ping", id |-> id, args |-> << >>, before |-> None,
                             result |-> Some(Response(429, Some(retryAfter(rateLimit, now)),
                                                      None, None))]
                 /\ UNCHANGED <<monitors, pings, nextPingId>>
            ELSE IF ~Exists(id)
            THEN /\ last' = [op |-> "GET /api/ping", id |-> id, args |-> << >>, before |-> None,
                             result |-> Some(Response(404, None, None, None))]
                 /\ UNCHANGED <<monitors, pings, nextPingId>>
            ELSE /\ nextPingId <= MaxPings
                 /\ pings' = Append(pings, pingRow(id, TRUE, Some(0), None, None))
                 /\ monitors' = [monitors EXCEPT
                                   ![id] = updateMonitorLastPing(@, toISOString(now))]
                 /\ nextPingId' = nextPingId + 1
                 /\ last' = [op |-> "GET /api/ping", id |-> id, args |-> << >>, before |-> None,
                             result |-> Some(Response(200, None, Some(nextPingId), None))]
  /\ UNCHANGED <<now, nextMonitorId, attempts, pending, sweep>>

\* POST /api/ping/[id], up to its response or to `await request.json()`
pingPOST(id, body) ==
  /\ ServedPing
  /\ LET rateLimit == rateLimitResult(rateLimitMap, id, now)
         monitor == getMonitor(monitors, id, now)
     IN  /\ rateLimitMap' = rateLimitMapAfter(rateLimitMap, id, now)
         /\ IF ~rateLimit.allowed
            THEN /\ last' = [op |-> "POST /api/ping", id |-> id, args |-> <<body>>,
                             before |-> None,
                             result |-> Some(Response(429, Some(retryAfter(rateLimit, now)),
                                                      None, None))]
                 /\ UNCHANGED <<monitors, pings, nextPingId, pending>>
            ELSE IF ~IsSome(monitor)
            THEN /\ last' = [op |-> "POST /api/ping", id |-> id, args |-> <<body>>,
                             before |-> None,
                             result |-> Some(Response(404, None, None, None))]
                 /\ UNCHANGED <<monitors, pings, nextPingId, pending>>
            ELSE IF IsSome(body)
            THEN \* hasBody: the handler is suspended with what it has read so far
                 /\ Len(pending) < MaxPending
                 /\ pending' = Append(pending, [id |-> id, body |-> Get(body),
                                                monitorStatus |-> Get(monitor)])
                 /\ last' = [op |-> "POST /api/ping: await body", id |-> id,
                             args |-> <<body>>, before |-> None, result |-> None]
                 /\ UNCHANGED <<monitors, pings, nextPingId>>
            ELSE /\ nextPingId <= MaxPings
                 /\ pings' = Append(pings, pingRow(id, TRUE, None, None, None))
                 /\ monitors' = [monitors EXCEPT
                                   ![id] = updateMonitorLastPing(@, toISOString(now))]
                 /\ nextPingId' = nextPingId + 1
                 /\ last' = [op |-> "POST /api/ping", id |-> id, args |-> <<body>>,
                             before |-> None,
                             result |-> Some(Response(200, None, Some(nextPingId), monitor))]
                 /\ UNCHANGED pending
  /\ UNCHANGED <<now, nextMonitorId, attempts, sweep>>

\* POST /api/ping/[id] from the point where request.json() has resolved
pingPOSTbody(i) ==
  LET req == pending[i]
      rest == SubSeq(pending, 1, i - 1) \o SubSeq(pending, i + 1, Len(pending))
  IN  /\ pending' = rest
      /\ IF ~req.body.valid
         THEN \* pingSchema.parse throws: 400
              /\ last' = [op |-> "POST /api/ping", id |-> req.id, args |-> <<Some(req.body)>>,
                          before |-> None,
                          result |-> Some(Response(400, None, None, None))]
              /\ UNCHANGED <<monitors, pings, nextPingId>>
         ELSE IF ~Exists(req.id)
         THEN \* recordPing returns null: ping?.id is undefined
              /\ last' = [op |-> "POST /api/ping", id |-> req.id, args |-> <<Some(req.body)>>,
                          before |-> None,
                          result |-> Some(Response(200, None, None, Some(req.monitorStatus)))]
              /\ UNCHANGED <<monitors, pings, nextPingId>>
         ELSE /\ nextPingId <= MaxPings
              /\ pings' = Append(pings, pingRow(req.id, req.body.success, None, None, None))
              /\ monitors' = [monitors EXCEPT
                                ![req.id] = updateMonitorLastPing(@, toISOString(now))]
              /\ nextPingId' = nextPingId + 1
              /\ last' = [op |-> "POST /api/ping", id |-> req.id, args |-> <<Some(req.body)>>,
                          before |-> None,
                          result |-> Some(Response(200, None, Some(nextPingId),
                                                   Some(req.monitorStatus)))]
      /\ UNCHANGED <<now, nextMonitorId, served, rateLimitMap, attempts, sweep>>

\* the id the ping requests are sent to: unknown until the first monitor is
\* created and again once it is deleted
PingTargets == {1}

PingGET == \E id \in PingTargets : pingGET(id)
PingPOST == \E id \in PingTargets, body \in PingBodies : pingPOST(id, body)
PingPOSTbody == \E i \in 1..Len(pending) : pingPOSTbody(i)

PausePinged == \E id \in PingTargets : pauseMonitor(id, None, None)

PingNext ==
  \/ CreateMonitor
  \/ DeleteMonitor
  \/ PausePinged
  \/ PingGET
  \/ PingPOST
  \/ PingPOSTbody
  \/ cleanupRateLimit
  \/ Tick

\* the empty store, with no window for id 1 or with the window left by four
\* pings sent to id 1 at instant 0 (each answered 404: no monitor exists yet)
PingInit ==
  /\ now = 0
  /\ monitors = << >>
  /\ pings = << >>
  /\ nextMonitorId = 1
  /\ nextPingId = 1
  /\ served = 0
  /\ \E count \in {0, MAX_REQUESTS_PER_WINDOW - 1} :
       rateLimitMap = IF count = 0 THEN << >>
                      ELSE (1 :> [count |-> count, resetAt |-> WINDOW_MS])
  /\ attempts = << >>
  /\ pending = << >>
  /\ sweep = None
  /\ last = [op |-> "init", id |-> 0, args |-> << >>, before |-> None, result |-> None]

PingSpec == PingInit /\ [][PingNext]_vars

----------------------------------------------------------------------------
(* The status engine on its own: one stored monitor drawn from bounded     *)
(* inputs (as it stands after createMonitor and, when it has a last ping,  *)
(* a recordPing at that instant, and possibly a pauseMonitor), read while  *)
(* the clock advances.                                                     *)

sched_5_minutes == <<"E","v","e","r","y"," ","5"," ","m","i","n","u","t","e","s">>
sched_0_min == <<"e","v","e","r","y"," ","0"," ","m","i","n">>

StatusSchedules == {sched_1_minutes, sched_5_minutes, sched_0_min}
StatusGraces == {1, 10}
StatusPingTimes == {0, 1}

StatusInit ==
  \E s \in StatusSchedules, g \in StatusGraces,
     lp \in {None} \cup {Some(t) : t \in StatusPingTimes},
     pause \in {None} \cup {Some(u) : u \in UntilInputs} :
    LET t0 == OrElse(lp, 0)
        created == [ id |-> 1, name |-> "backup", schedule |-> s,
                     interval_minutes |-> parseScheduleInterval(s),
                     grace_minutes |-> g, last_ping |-> None,
                     created_at |-> toISOString(0), paused |-> 0,
                     paused_at |-> None, paused_until |-> None, pause_reason |-> None ]
        pinged == IF IsSome(lp) THEN updateMonitorLastPing(created, toISOString(t0)) ELSE created
        row == IF IsSome(pause)
               THEN pauseMonitorStmt(pinged, Some(toISOString(t0)), Get(pause), None)
               ELSE pinged
    IN  /\ now = t0
        /\ monitors = (1 :> row)
        /\ pings = IF IsSome(lp)
                   THEN << [id |-> 1, monitor_id |-> 1, timestamp |-> toISOString(t0),
                            status |-> "success",
                            duration |-> None, message |-> None, ip |-> None ] >>
                   ELSE << >>
        /\ nextMonitorId = 2
        /\ nextPingId = IF IsSome(lp) THEN 2 ELSE 1
        /\ served = 0
        /\ rateLimitMap = << >>
        /\ attempts = << >>
        /\ pending = << >>
        /\ sweep = None
        /\ last = [op |-> "init", id |-> 0, args |-> << >>, before |-> None, result |-> None]

StatusTick == advanceClock(StatusTimePoints)

StatusNext ==
  \/ ReadMonitor
  \/ StatusTick

StatusSpec == StatusInit /\ [][StatusNext]_vars

----------------------------------------------------------------------------
(* Pause and resume of one stored monitor: an active monitor drawn from the *)
(* same bounded inputs (never pinged, or pinged at creation), paused and    *)
(* resumed while the clock advances.                                        *)

RoundTripInit == StatusInit /\ monitors[1].paused = 0

RoundTripNext ==
  \/ PauseMonitor
  \/ ResumeMonitor
  \/ Tick

RoundTripSpec == RoundTripInit /\ [][RoundTripNext]_vars

----------------------------------------------------------------------------
(* The pause controller under the scheduling the code provides: the clock  *)
(* advances and the dashboard polls GET /api/monitors on its refresh       *)
(* timer.  No timer, handler or read path calls checkAndResumeMonitors, so *)
(* the sweep runs only if something outside the code calls it: it is       *)
(* always possible here (anySweep), and nothing makes it happen.           *)

\* getAllMonitors: the statuses of the rows in ORDER BY created_at DESC
\* (rows created at the same instant are listed by descending id)
RECURSIVE statusesByCreation(_, _)
statusesByCreation(rows, ids) ==
  IF ids = {} THEN << >>
  ELSE LET newest == CHOOSE i \in ids : \A j \in ids :
                       \/ i = j
                       \/ ~TextLeq(rows[i].created_at, rows[j].created_at)
                       \/ (rows[i].created_at = rows[j].created_at /\ i > j)
       IN  <<getMonitorStatus(rowToMonitor(rows[newest]), now)>>
             \o statusesByCreation(rows, ids \ {newest})

\* (id numbers the refresh modulo 2: successive polls are distinct steps)
getAllMonitors ==
  /\ last' = [op |-> "getAllMonitors",
              id |-> IF last.op = "getAllMonitors" THEN 1 - last.id ELSE 0,
              args |-> << >>,
              before |-> None, result |-> statusesByCreation(monitors, DOMAIN monitors)]
  /\ UNCHANGED now
  /\ StoreUnchanged
  /\ RateUnchanged

anySweep == checkAndResumeMonitors /\ UNCHANGED served

PauseNext ==
  \/ CreateMonitor
  \/ PauseMonitor
  \/ ResumeMonitor
  \/ anySweep
  \/ getAllMonitors
  \/ Tick

PauseFairSpec == Init /\ [][PauseNext]_vars /\ WF_vars(Tick) /\ WF_vars(getAllMonitors)

----------------------------------------------------------------------------
(* Vocabulary of the properties *)

\* the step just taken served the request op (the clock and the timers do
\* not touch the request counters)
StepOf(op) == served' = served + 1 /\ last'.op = op

Minutes(n) == n * MsPerMinute

\* the status the timing rule assigns at instant t to an unpaused monitor
\* whose last ping was at instant T, with interval I and grace G in minutes
TimedStatus(T, I, G, t) ==
  IF t <= T + Minutes(I) THEN "healthy"
  ELSE IF t <= T + Minutes(I) + Minutes(G) THEN "late"
  ELSE "down"

\* the same for a stored row: a monitor never pinged is down
RowTimedStatus(row, t) ==
  IF IsSome(row.last_ping)
  THEN TimedStatus(DateParse(Get(row.last_ping)), row.interval_minutes, row.grace_minutes, t)
  ELSE "down"

StatusNow(id) == getMonitorStatus(rowToMonitor(monitors[id]), now)

----------------------------------------------------------------------------
(* C1: an unpaused monitor pinged at T with interval I and grace G is      *)
(* healthy while T <= now <= T+I, late while T+I < now <= T+I+G and down   *)
(* once now > T+I+G; at exactly T+I it is healthy, at exactly T+I+G late.  *)

C1_StatusFollowsTiming ==
  \A id \in DOMAIN monitors :
    LET row == monitors[id]
    IN  (row.paused = 0 /\ IsSome(row.last_ping) /\ DateParse(Get(row.last_ping)) <= now)
        => StatusNow(id) = TimedStatus(DateParse(Get(row.last_ping)), row.interval_minutes,
                                       row.grace_minutes, now)

\* interval 5, grace 10, read exactly 15 minutes after the ping: still late
C1_Witness ==
  /\ 1 \in DOMAIN monitors
  /\ monitors[1].paused = 0
  /\ monitors[1].interval_minutes = 5
  /\ monitors[1].grace_minutes = 10
  /\ monitors[1].last_ping = Some(toISOString(1))
  /\ now = 1 + Minutes(15)
  /\ last.op = "getMonitor" /\ last.id = 1 /\ last.result = Some("late")

----------------------------------------------------------------------------
(* C2: a monitor whose paused flag is set reports paused at every instant, *)
(* whatever its last ping, interval and grace and even after pausedUntil   *)
(* has passed; the flag of a stored monitor is cleared only by a resume    *)
(* request or by the sweep.                                                *)

C2_PausedReportsPaused ==
  \A id \in DOMAIN monitors :
    monitors[id].paused = 1 =>
      \A t \in TimePoints : getMonitorStatus(rowToMonitor(monitors[id]), t) = "paused"

C2_OnlyResumeOrSweepClears ==
  \A id \in DOMAIN monitors :
    (monitors[id].paused = 1 /\ id \in DOMAIN monitors' /\ monitors'[id].paused = 0)
      => (StepOf("resumeMonitor") \/ StepOf("checkAndResumeMonitors"))

C2_PausedUntilResumedOrSwept ==
  [](C2_PausedReportsPaused) /\ [][C2_OnlyResumeOrSweepClears]_vars

\* a read after pausedUntil has passed still answers paused
C2_Witness ==
  /\ last.op = "getMonitor"
  /\ last.id \in DOMAIN monitors
  /\ monitors[last.id].paused = 1
  /\ IsSome(monitors[last.id].paused_until)
  /\ DateParse(Get(monitors[last.id].paused_until)) < now
  /\ last.result = Some("paused")

----------------------------------------------------------------------------
(* C3: recordPing on a known monitor appends exactly one ping with a fresh *)
(* id and the server timestamp to the history, keeps every earlier ping,   *)
(* and sets last_ping to that timestamp; whatever the order of the pings   *)
(* to one monitor, ping ids stay distinct and last_ping is the timestamp   *)
(* of the ping written last.                                               *)

PingIds == { pings[k].id : k \in 1..Len(pings) }
PingsOf(id) == SelectSeq(pings, LAMBDA p : p.monitor_id = id)

C3_AppendsOnePing ==
  (StepOf("recordPing") /\ last'.id \in DOMAIN monitors) =>
    LET id == last'.id
        p == pings'[Len(pings')]
    IN  /\ Len(pings') = Len(pings) + 1
        /\ SubSeq(pings', 1, Len(pings)) = pings
        /\ p.monitor_id = id
        /\ p.id \notin PingIds
        /\ p.timestamp = toISOString(now)
        /\ p.status = (IF last'.args[1] THEN "success" ELSE "failure")
        /\ last'.result = Some([id |-> p.id, timestamp |-> p.timestamp, status |-> p.status])
        /\ monitors' = [monitors EXCEPT ![id].last_ping = Some(p.timestamp)]

C3_LastWriteWins ==
  /\ \A j, k \in 1..Len(pings) : pings[j].id = pings[k].id => j = k
  /\ \A id \in DOMAIN monitors :
       PingsOf(id) # << >> =>
         monitors[id].last_ping = Some(PingsOf(id)[Len(PingsOf(id))].timestamp)

C3_PingRecorded == [](C3_LastWriteWins) /\ [][C3_AppendsOnePing]_vars

\* two pings to one monitor at different instants: both kept, the later one wins
C3_Witness ==
  /\ last.op = "recordPing"
  /\ last.id \in DOMAIN monitors
  /\ Len(PingsOf(last.id)) = 2
  /\ PingsOf(last.id)[1].timestamp # PingsOf(last.id)[2].timestamp
  /\ monitors[last.id].last_ping = Some(PingsOf(last.id)[2].timestamp)
  /\ last.result = Some([id |-> 2, timestamp |-> toISOString(now), status |-> "failure"])

----------------------------------------------------------------------------
(* C4: recordPing with an id that references no monitor returns null       *)
(* (a result, not an exception), inserts no ping row and leaves every      *)
(* monitor and every existing ping unchanged.                              *)

C4_UnknownIdStep ==
  (StepOf("recordPing") /\ last'.id \notin DOMAIN monitors) =>
    /\ last'.result = None
    /\ UNCHANGED <<monitors, pings, nextPingId>>

C4_UnknownIdNotFound == [][C4_UnknownIdStep]_vars

\* null returned for an unknown id while another monitor holds a ping
C4_Witness ==
  /\ last.op = "recordPing"
  /\ last.id \notin DOMAIN monitors
  /\ last.result = None
  /\ monitors # << >>
  /\ Len(pings) = 1

----------------------------------------------------------------------------
(* C5: a monitor paused with an `until` time returns to active once that   *)
(* time has passed, without a resume request.                              *)
(* Checked under PauseFairSpec: the clock and the dashboard poll are fair, *)
(* the sweep is never called by the code, so nothing obliges it to run.    *)

PauseExpired(id) ==
  /\ id \in DOMAIN monitors
  /\ monitors[id].paused = 1
  /\ IsSome(monitors[id].paused_until)
  /\ DateParse(Get(monitors[id].paused_until)) < now

C5_TimedPauseEnds ==
  \A id \in MonitorIds :
    PauseExpired(id) ~> (id \notin DOMAIN monitors \/ monitors[id].paused = 0)

----------------------------------------------------------------------------
(* C6: a sweep at time now resumes exactly the monitors with paused = 1, a *)
(* pausedUntil value and pausedUntil <= now (as instants), returns exactly *)
(* their ids, and leaves every other monitor unchanged.                    *)

DueForResume ==
  { id \in DOMAIN monitors :
      /\ monitors[id].paused = 1
      /\ IsSome(monitors[id].paused_until)
      /\ DateParse(Get(monitors[id].paused_until)) <= now }

SeqToSet(q) == { q[k] : k \in 1..Len(q) }

C6_SweepStep ==
  StepOf("checkAndResumeMonitors") =>
    /\ SeqToSet(last'.result) = DueForResume
    /\ DOMAIN monitors' = DOMAIN monitors
    /\ \A id \in DOMAIN monitors :
         monitors'[id] = IF id \in DueForResume
                         THEN [monitors[id] EXCEPT !.paused = 0, !.paused_at = None,
                                                   !.paused_until = None, !.pause_reason = None]
                         ELSE monitors[id]

C6_SweepResumesExactlyDue == [][C6_SweepStep]_vars

----------------------------------------------------------------------------
(* C7: pause(id, reason?, until?) on an existing monitor sets paused and   *)
(* pausedAt = the current time, stores pausedUntil and pauseReason exactly *)
(* as given (absent when not given) and leaves name, schedule, interval,   *)
(* grace, lastPing, createdAt, the other monitors and the ping history     *)
(* unchanged; on an unknown id it returns not-found and changes nothing.   *)

KeptByPause == {"id", "name", "schedule", "interval_minutes", "grace_minutes",
                "last_ping", "created_at"}

C7_PauseStep ==
  StepOf("pauseMonitor") =>
    LET id == last'.id
        reason == last'.args[1]
        until == last'.args[2]
    IN  IF id \in DOMAIN monitors
        THEN /\ DOMAIN monitors' = DOMAIN monitors
             /\ monitors'[id].paused = 1
             /\ IsSome(monitors'[id].paused_at)
             /\ DateParse(Get(monitors'[id].paused_at)) = now
             /\ monitors'[id].paused_until = until
             /\ monitors'[id].pause_reason = reason
             /\ \A f \in KeptByPause : monitors'[id][f] = monitors[id][f]
             /\ \A j \in DOMAIN monitors \ {id} : monitors'[j] = monitors[j]
             /\ pings' = pings
             /\ last'.result = Some("paused")
        ELSE /\ last'.result = None
             /\ monitors' = monitors
             /\ pings' = pings

C7_PauseStoresAsGiven == [][C7_PauseStep]_vars

\* a timed pause with a reason has just been stored
C7_Witness ==
  /\ last.op = "pauseMonitor"
  /\ IsSome(last.before)
  /\ last.args = <<Some("maintenance"), Some(isoNoFraction(MsPerMinute))>>
  /\ monitors[last.id].paused = 1
  /\ monitors[last.id].paused_until = Some(isoNoFraction(MsPerMinute))

----------------------------------------------------------------------------
(* C8: resume(id) on a paused monitor sets paused = false and clears       *)
(* pausedAt, pausedUntil and pauseReason together; on an already-active    *)
(* monitor it succeeds and changes no field; on an unknown id it returns   *)
(* not-found and changes nothing.                                          *)

C8_ResumeStep ==
  StepOf("resumeMonitor") =>
    LET id == last'.id
    IN  IF id \in DOMAIN monitors
        THEN /\ DOMAIN monitors' = DOMAIN monitors
             /\ monitors'[id].paused = 0
             /\ monitors'[id].paused_at = None
             /\ monitors'[id].paused_until = None
             /\ monitors'[id].pause_reason = None
             /\ \A f \in KeptByPause : monitors'[id][f] = monitors[id][f]
             /\ \A j \in DOMAIN monitors \ {id} : monitors'[j] = monitors[j]
             /\ monitors[id].paused = 0 => monitors' = monitors
             /\ IsSome(last'.result) /\ Get(last'.result) # "paused"
             /\ pings' = pings
        ELSE /\ last'.result = None
             /\ monitors' = monitors
             /\ pings' = pings

C8_ResumeClearsPause == [][C8_ResumeStep]_vars

\* a monitor paused with a reason and a resume time has just been resumed
C8_Witness ==
  /\ last.op = "resumeMonitor"
  /\ IsSome(last.before)
  /\ Get(last.before).paused = 1
  /\ IsSome(Get(last.before).paused_until)
  /\ IsSome(Get(last.before).pause_reason)
  /\ monitors[last.id].paused = 0

----------------------------------------------------------------------------
(* C9: for an active monitor and any reason/until, pause followed by       *)
(* resume yields a stored monitor equal in every field to the one before   *)
(* the pause (pause fields absent), whose status at any later time is the  *)
(* healthy/late/down value its lastPing, interval and grace give, as if it *)
(* had never been paused.                                                  *)

C9_RoundTripStep ==
  ( /\ StepOf("resumeMonitor")
    /\ last.op = "pauseMonitor"
    /\ last.id = last'.id
    /\ IsSome(last.before)
    /\ Get(last.before).paused = 0 ) =>
    LET id == last'.id
        pre == Get(last.before)
    IN  /\ monitors'[id] = pre
        /\ monitors'[id].paused_at = None
        /\ monitors'[id].paused_until = None
        /\ monitors'[id].pause_reason = None
        /\ last'.result = Some(RowTimedStatus(pre, now))
        /\ \A t \in StatusTimePoints :
             t >= now => getMonitorStatus(rowToMonitor(monitors'[id]), t)
                           = RowTimedStatus(pre, t)

C9_PauseResumeRoundTrip == [][C9_RoundTripStep]_vars

\* a pinged monitor was paused until a given time, then resumed while late
C9_Witness ==
  /\ served = 2
  /\ last.op = "resumeMonitor"
  /\ IsSome(last.before)
  /\ Get(last.before).paused = 1
  /\ IsSome(Get(last.before).paused_until)
  /\ IsSome(monitors[last.id].last_ping)
  /\ last.result = Some("late")

----------------------------------------------------------------------------
(* C10: starting from no live window for an id, the first 5 attempts are   *)
(* allowed and the 6th and every later attempt made within 60 seconds of   *)
(* the 1st (up to and including the 60th second) is rejected; a rejected   *)
(* attempt changes neither the counter nor the reset time; the window ends *)
(* 60 seconds after the first request in it, and the next attempt after    *)
(* that is allowed and opens a new window.  Attempts made at the same      *)
(* instant are served one after the other: the counter never exceeds 5.    *)

\* the window the rule above gives an id after the first n logged attempts:
\* None, or the instant of the window's first request and the requests
\* allowed in it
RECURSIVE WindowAfter(_, _)
WindowAfter(n, id) ==
  IF n = 0 THEN None
  ELSE LET prev == WindowAfter(n - 1, id)
           a == attempts[n]
       IN  IF a.id # id THEN prev
           ELSE IF ~IsSome(prev) \/ a.at > Get(prev).first + WINDOW_MS
                THEN Some([first |-> a.at, used |-> 1])
           ELSE IF Get(prev).used < MAX_REQUESTS_PER_WINDOW
                THEN Some([first |-> Get(prev).first, used |-> Get(prev).used + 1])
           ELSE prev

ExpectedAllowed(n) ==
  LET prev == WindowAfter(n - 1, attempts[n].id)
  IN  \/ ~IsSome(prev)
      \/ attempts[n].at > Get(prev).first + WINDOW_MS
      \/ Get(prev).used < MAX_REQUESTS_PER_WINDOW

C10_FixedWindow ==
  /\ \A n \in 1..Len(attempts) : attempts[n].allowed = ExpectedAllowed(n)
  /\ \A id \in DOMAIN rateLimitMap :
       LET w == WindowAfter(Len(attempts), id)
       IN  /\ rateLimitMap[id].count <= MAX_REQUESTS_PER_WINDOW
           /\ IsSome(w)
           /\ rateLimitMap[id].count = Get(w).used
           /\ rateLimitMap[id].resetAt = Get(w).first + WINDOW_MS
  /\ last.op = "checkRateLimit" =>
       LET r == Get(last.result)
           w == Get(WindowAfter(Len(attempts), last.id))
       IN  /\ r.allowed = attempts[Len(attempts)].allowed
           /\ r.resetAt = w.first + WINDOW_MS
           /\ r.remaining = IF r.allowed THEN MAX_REQUESTS_PER_WINDOW - w.used ELSE 0

C10_RejectedStep ==
  (Len(attempts') = Len(attempts) + 1 /\ ~attempts'[Len(attempts')].allowed)
    => rateLimitMap' = rateLimitMap

C10_FiveThenRejected == [](C10_FixedWindow) /\ [][C10_RejectedStep]_vars

\* five attempts at instant 0 allowed, a sixth exactly 60 seconds later
\* rejected, a seventh one millisecond after that allowed in a new window
C10_Witness ==
  /\ Len(attempts) = 7
  /\ \A n \in 1..7 : attempts[n].id = 1
  /\ \A n \in 1..5 : attempts[n].at = 0 /\ attempts[n].allowed
  /\ attempts[6].at = WINDOW_MS /\ ~attempts[6].allowed
  /\ attempts[7].at = WINDOW_MS + 1 /\ attempts[7].allowed
  /\ rateLimitMap[1] = [count |-> 1, resetAt |-> 2 * WINDOW_MS + 1]

----------------------------------------------------------------------------
(* C11: in every rolling 60-second window at most 5 ping requests to the   *)
(* same monitor id are allowed by the rate limiter, for every sequence of  *)
(* request times.                                                          *)

\* the allowed attempts on the id of attempt n made in the 60 seconds that
\* start with attempt n
AllowedInWindowFrom(n) ==
  { m \in 1..Len(attempts) :
      /\ attempts[m].id = attempts[n].id
      /\ attempts[m].allowed
      /\ attempts[n].at <= attempts[m].at
      /\ attempts[m].at < attempts[n].at + WINDOW_MS }

C11_RollingWindowLimit ==
  \A n \in 1..Len(attempts) :
    Cardinality(AllowedInWindowFrom(n)) <= MAX_REQUESTS_PER_WINDOW

----------------------------------------------------------------------------
(* C12: every GET /api/ping/{id} has exactly one of three outcomes: 429    *)
(* with Retry-After when the id is rate-limited, 404 when the monitor is   *)
(* unknown, or 200; a success ping is recorded (and lastPing advanced) if  *)
(* and only if the outcome is 200, and a 429 or 404 outcome leaves         *)
(* monitors and pings unchanged.                                           *)

\* the id has used up its live window
RateLimited(id) ==
  /\ id \in DOMAIN rateLimitMap
  /\ now <= rateLimitMap[id].resetAt
  /\ rateLimitMap[id].count >= MAX_REQUESTS_PER_WINDOW

C12_GetStep ==
  StepOf("GET /api/ping") =>
    LET id == last'.id
        r == Get(last'.result)
    IN  /\ r.status \in {429, 404, 200}
        /\ r.status = 429 <=> RateLimited(id)
        /\ r.status = 404 <=> (~RateLimited(id) /\ id \notin DOMAIN monitors)
        /\ r.status = 200 <=> (~RateLimited(id) /\ id \in DOMAIN monitors)
        /\ r.status = 429 =>
             /\ IsSome(r.retryAfter)
             /\ Get(r.retryAfter) * 1000 >= rateLimitMap[id].resetAt - now
             /\ (Get(r.retryAfter) - 1) * 1000 < rateLimitMap[id].resetAt - now
        /\ r.status # 200 => (monitors' = monitors /\ pings' = pings)
        /\ r.status = 200 =>
             /\ Len(pings') = Len(pings) + 1
             /\ SubSeq(pings', 1, Len(pings)) = pings
             /\ pings'[Len(pings')].monitor_id = id
             /\ pings'[Len(pings')].status = "success"
             /\ DateParse(pings'[Len(pings')].timestamp) = now
             /\ r.pingId = Some(pings'[Len(pings')].id)
             /\ monitors'[id].last_ping = Some(pings'[Len(pings')].timestamp)
             /\ monitors' = [monitors EXCEPT ![id].last_ping = monitors'[id].last_ping]

C12_GetPingOutcomes == [][C12_GetStep]_vars

\* a ping of an existing monitor has been answered 429, and nothing recorded
C12_Witness ==
  /\ last.op = "GET /api/ping"
  /\ Get(last.result).status = 429
  /\ last.id \in DOMAIN monitors
  /\ Len(pings) = 1
  /\ \E k \in 1..Len(pings) : pings[k].monitor_id = last.id

----------------------------------------------------------------------------
(* C13: the monitor.status returned by a successful POST /api/ping/{id} is *)
(* the monitor's status after that ping has been recorded: for an         *)
(* unpaused monitor the response reports healthy, including for the first *)
(* ping of a monitor that was down or late before the request.            *)

\* the step just taken answered a POST /api/ping request
PostAnswered ==
  /\ last'.op = "POST /api/ping"
  /\ served' = served + 1 \/ Len(pending') < Len(pending)

C13_PostStep ==
  (PostAnswered /\ Get(last'.result).status = 200 /\ IsSome(Get(last'.result).pingId)) =>
    LET id == last'.id
        r == Get(last'.result)
    IN  /\ r.monitorStatus = Some(getMonitorStatus(rowToMonitor(monitors'[id]), now))
        /\ monitors'[id].paused = 0 => r.monitorStatus = Some("healthy")

C13_PostReportsStatusAfterPing == [][C13_PostStep]_vars

----------------------------------------------------------------------------
(* C14: a newly created monitor has no pings, lastPing absent and paused = *)
(* false, and every unpaused monitor that has never had a ping recorded    *)
(* reports status down at every time until its first ping.                 *)

C14_CreateStep ==
  StepOf("createMonitor") =>
    LET id == last'.id
    IN  /\ id \notin DOMAIN monitors
        /\ DOMAIN monitors' = DOMAIN monitors \cup {id}
        /\ monitors'[id].last_ping = None
        /\ monitors'[id].paused = 0
        /\ PingsOf(id) = << >>
        /\ pings' = pings
        /\ last'.result = Some("down")

\* monitor ids are never reused and pings are deleted only with their
\* monitor: a stored monitor without a stored ping has never been pinged
C14_NeverPingedIsDown ==
  \A id \in DOMAIN monitors :
    (monitors[id].paused = 0 /\ PingsOf(id) = << >>) =>
      /\ monitors[id].last_ping = None
      /\ \A t \in StatusTimePoints :
           t >= now => getMonitorStatus(rowToMonitor(monitors[id]), t) = "down"
      /\ (last.op = "getMonitor" /\ last.id = id) => last.result = Some("down")

C14_CreatedEmptyAndDown == [](C14_NeverPingedIsDown) /\ [][C14_CreateStep]_vars

\* a monitor never pinged is read two minutes into the run and is down
C14_Witness ==
  /\ last.op = "getMonitor"
  /\ last.id \in DOMAIN monitors
  /\ monitors[last.id].paused = 0
  /\ PingsOf(last.id) = << >>
  /\ now = 2 * MsPerMinute
  /\ last.result = Some("down")

----------------------------------------------------------------------------
(* The schedule parser on its own: one stored monitor whose schedule is    *)
(* drawn from the texts made of at most MaxTokens fragments, then updated  *)
(* with a new schedule.                                                    *)

tok_every_5_min == <<"e","v","e","r","y"," ","5"," ","m","i","n">>
tok_Every_12_minutes == <<"E","v","e","r","y"," ","1","2"," "," ","m","i","n","u","t","e","s">>
tok_every_2hours == <<"e","v","e","r","y"," ","2","h","o","u","r","s">>
tok_every_minute == <<"e","v","e","r","y"," ","m","i","n","u","t","e">>
tok_EVERY_HOUR == <<"E","V","E","R","Y"," ","H","O","U","R">>
tok_every_day == <<"e","v","e","r","y"," ","d","a","y">>
tok_daily == <<"d","a","i","l","y">>
tok_every_week == <<"e","v","e","r","y"," ","w","e","e","k">>
tok_Weekly == <<"W","e","e","k","l","y">>
tok_every_ == <<"e","v","e","r","y"," ">>
tok_3_hours == <<"3"," ","h","o","u","r","s">>
tok_0_min == <<"0"," ","m","i","n">>
tok_space == <<" ">>
tok_min == <<"m","i","n">>
tok_hour == <<"h","o","u","r">>
tok_x == <<"x">>
tok_every__hour == <<"e","v","e","r","y"," "," ","h","o","u","r">>

ScheduleTokens ==
  { tok_every_5_min, tok_Every_12_minutes, tok_every_2hours, tok_every_minute,
    tok_EVERY_HOUR, tok_every_day, tok_daily, tok_every_week,
    tok_Weekly, tok_every_, tok_3_hours, tok_0_min,
    tok_space, tok_min, tok_hour, tok_x, tok_every__hour }

RECURSIVE TextsOf(_)
\* the concatenations of at most n fragments
TextsOf(n) ==
  IF n = 0 THEN { << >> }
  ELSE LET shorter == TextsOf(n - 1)
       IN  shorter \cup { s \o tok : s \in shorter, tok \in ScheduleTokens }

ParseSchedules == TextsOf(MaxTokens)

ParseInit ==
  \E s \in ParseSchedules :
    /\ now = 0
    /\ monitors = (1 :> [ id |-> 1, name |-> "backup", schedule |-> s,
                          interval_minutes |-> parseScheduleInterval(s),
                          grace_minutes |-> 1, last_ping |-> None,
                          created_at |-> toISOString(0), paused |-> 0,
                          paused_at |-> None, paused_until |-> None,
                          pause_reason |-> None ])
    /\ pings = << >>
    /\ nextMonitorId = 2
    /\ nextPingId = 1
    /\ served = 0
    /\ rateLimitMap = << >>
    /\ attempts = << >>
    /\ pending = << >>
    /\ sweep = None
    /\ last = [op |-> "init", id |-> 0, args |-> << >>, before |-> None, result |-> None]

\* PATCH with a new schedule (a single fragment)
UpdateSchedule ==
  \E tok \in ScheduleTokens : updateMonitor(1, [NoUpdates EXCEPT !.schedule = Some(tok)])

ParseNext == UpdateSchedule

ParseSpec == ParseInit /\ [][ParseNext]_vars

----------------------------------------------------------------------------
(* C15: parseScheduleInterval matches case-insensitively against the       *)
(* patterns in the stated order and the first match decides: `every N      *)
(* minute(s)` gives N, `every minute` 1, `every N hour(s)` 60*N, `every    *)
(* hour` 60, `every day`/`daily` 1440, `every week`/`weekly` 10080, and a  *)
(* text matching none of them gives 1440.                                  *)

\* text is read in l from position i on
TextAt(l, i, text) ==
  i + Len(text) - 1 <= Len(l) /\ SubSeq(l, i, i + Len(text) - 1) = text

\* text occurs in l
Contains(l, text) == \E i \in 1..Len(l) : TextAt(l, i, text)

RECURSIVE Decimal(_, _, _)
\* the number written by the digits l[b..c-1]
Decimal(l, b, c) == IF c <= b THEN 0 ELSE 10 * Decimal(l, b, c - 1) + DigitValue(l[c - 1])

\* the places <<i, b, c>> where l reads `every`, white space, the digits
\* l[b..c-1], optional white space and then unit, starting at i
NumberedPlaces(l, unit) ==
  { o \in UNION { { <<i, b, c>> : b \in (i + 6)..Len(l), c \in (i + 7)..Len(l) } :
                    i \in { i \in 1..Len(l) : TextAt(l, i, lit_every) } } :
      /\ o[3] > o[2]
      /\ \A k \in (o[1] + 5)..(o[2] - 1) : l[k] \in SpaceChars
      /\ \A k \in o[2]..(o[3] - 1) : l[k] \in DigitSet
      /\ \E d \in o[3]..Len(l) :
           /\ \A k \in o[3]..(d - 1) : l[k] \in SpaceChars
           /\ TextAt(l, d, unit) }

\* the N of the first place where `every N unit` is read, if there is one
NumberOf(l, unit) ==
  LET places == NumberedPlaces(l, unit)
  IN  IF places = {} THEN None
      ELSE LET first == CHOOSE o \in places : \A o2 \in places : o[1] <= o2[1]
           IN  Some(Decimal(l, first[2], first[3]))

ExpectedInterval(schedule) ==
  LET l == toLowerCase(schedule)
      minutes == NumberOf(l, lit_min)
      hours == NumberOf(l, lit_hour)
  IN  IF IsSome(minutes) THEN Get(minutes)
      ELSE IF Contains(l, lit_every_minute) THEN 1
      ELSE IF IsSome(hours) THEN 60 * Get(hours)
      ELSE IF Contains(l, lit_every_hour) THEN 60
      ELSE IF Contains(l, lit_every_day) \/ Contains(l, lit_daily) THEN 1440
      ELSE IF Contains(l, lit_every_week) \/ Contains(l, lit_weekly) THEN 10080
      ELSE 1440

C15_ParseFollowsPrecedence ==
  \A id \in DOMAIN monitors :
    monitors[id].interval_minutes = ExpectedInterval(monitors[id].schedule)

\* a monitor has been updated to `Every 12  minutes` and is stored with 12
C15_Witness ==
  /\ last.op = "updateMonitor"
  /\ monitors[1].schedule = tok_Every_12_minutes
  /\ monitors[1].interval_minutes = 12

----------------------------------------------------------------------------
(* The schedule validation of POST and PATCH /api/monitors                 *)
(* (src/lib/validation.ts)                                                 *)

lit_mins == <<"m","i","n","s">>
lit_minute == <<"m","i","n","u","t","e">>
lit_minutes == <<"m","i","n","u","t","e","s">>
lit_hours == <<"h","o","u","r","s">>
lit_day == <<"d","a","y">>
lit_week == <<"w","e","e","k">>

\* schedulePattern.test(schedule):
\* /^(every\s+\d+\s*(min(ute)?s?|hours?)|every\s+(minute|hour|day|week)|daily|weekly)$/i
schedulePattern(schedule) ==
  LET l == toLowerCase(schedule)
      a == Len(lit_every) + 1
      b == RunEnd(l, a, SpaceChars)
      c == RunEnd(l, b, DigitSet)
      d == RunEnd(l, c, SpaceChars)
  IN  \/ /\ LitAt(l, 1, lit_every)
         /\ b > a
         /\ c > b
         /\ SubSeq(l, d, Len(l)) \in {lit_min, lit_mins, lit_minute, lit_minutes,
                                      lit_hour, lit_hours}
      \/ /\ LitAt(l, 1, lit_every)
         /\ b > a
         /\ SubSeq(l, b, Len(l)) \in {lit_minute, lit_hour, lit_day, lit_week}
      \/ l \in {lit_daily, lit_weekly}

----------------------------------------------------------------------------
(* C16: for every schedule text, and in particular for every text the      *)
(* create/update validation accepts, parseScheduleInterval returns a       *)
(* positive integer, so every stored intervalMinutes is at least 1.        *)

C16_IntervalPositive ==
  \A id \in DOMAIN monitors :
    schedulePattern(monitors[id].schedule) => monitors[id].interval_minutes >= 1

----------------------------------------------------------------------------
(* Two histories side by side: monitors 1 and 2 are created with the same  *)
(* inputs and receive the same operations at the same instants; only the   *)
(* success, duration, message and ip of their pings may differ.            *)

PingInputs ==
  { [success |-> TRUE, duration |-> None, message |-> None, ip |-> None],
    [success |-> TRUE, duration |-> Some(250), message |-> None, ip |-> Some("10.0.0.7")],
    [success |-> FALSE, duration |-> Some(86400000), message |-> Some("disk full"),
     ip |-> Some("10.0.0.7")] }

\* createMonitor, twice with the same arguments
twinCreate(name, schedule, graceMinutes) ==
  /\ Served
  /\ nextMonitorId = 1
  /\ LET row(id) == [ id |-> id, name |-> name, schedule |-> schedule,
                      interval_minutes |-> parseScheduleInterval(schedule),
                      grace_minutes |-> graceMinutes, last_ping |-> None,
                      created_at |-> toISOString(now), paused |-> 0,
                      paused_at |-> None, paused_until |-> None, pause_reason |-> None ]
     IN  monitors' = (1 :> row(1)) @@ (2 :> row(2))
  /\ nextMonitorId' = 3
  /\ last' = [op |-> "twinCreate", id |-> 0, args |-> <<name, schedule, graceMinutes>>,
              before |-> None, result |-> None]
  /\ UNCHANGED <<now, pings, nextPingId>>
  /\ RateUnchanged

\* variant: a failure ping does not advance last_ping
twinPing_failureKeepsLastPing(in1, in2) ==
  /\ Served
  /\ DOMAIN monitors = {1, 2}
  /\ nextPingId + 1 <= MaxPings
  /\ LET timestamp == toISOString(now)
         row(pingId, id, in) ==
           [ id |-> pingId, monitor_id |-> id, timestamp |-> timestamp,
             status |-> IF in.success THEN "success" ELSE "failure",
             duration |-> in.duration, message |-> in.message, ip |-> in.ip ]
     IN  /\ pings' = pings \o << row(nextPingId, 1, in1), row(nextPingId + 1, 2, in2) >>
         /\ monitors' = [monitors EXCEPT
              ![1] = IF in1.success THEN updateMonitorLastPing(@, timestamp) ELSE @,
              ![2] = IF in2.success THEN updateMonitorLastPing(@, timestamp) ELSE @]
  /\ nextPingId' = nextPingId + 2
  /\ last' = [op |-> "twinPing", id |-> 0, args |-> <<in1, in2>>, before |-> None,
              result |-> None]
  /\ UNCHANGED <<now, nextMonitorId>>
  /\ RateUnchanged

\* recordPing on monitor 1 and on monitor 2 at the same instant
twinPing(in1, in2) ==
  /\ Served
  /\ DOMAIN monitors = {1, 2}
  /\ nextPingId + 1 <= MaxPings
  /\ LET timestamp == toISOString(now)
         row(pingId, id, in) ==
           [ id |-> pingId, monitor_id |-> id, timestamp |-> timestamp,
             status |-> IF in.success THEN "success" ELSE "failure",
             duration |-> in.duration, message |-> in.message, ip |-> in.ip ]
     IN  /\ pings' = pings \o << row(nextPingId, 1, in1), row(nextPingId + 1, 2, in2) >>
         /\ monitors' = [monitors EXCEPT ![1] = updateMonitorLastPing(@, timestamp),
                                         ![2] = updateMonitorLastPing(@, timestamp)]
  /\ nextPingId' = nextPingId + 2
  /\ last' = [op |-> "twinPing", id |-> 0, args |-> <<in1, in2>>, before |-> None,
              result |-> None]
  /\ UNCHANGED <<now, nextMonitorId>>
  /\ RateUnchanged

\* pauseMonitor on both with the same arguments
twinPause(reason, until) ==
  /\ Served
  /\ DOMAIN monitors = {1, 2}
  /\ monitors' = [ id \in {1, 2} |->
                     pauseMonitorStmt(monitors[id], Some(toISOString(now)), until, reason) ]
  /\ last' = [op |-> "twinPause", id |-> 0, args |-> <<reason, until>>, before |-> None,
              result |-> None]
  /\ UNCHANGED <<now, pings, nextMonitorId, nextPingId>>
  /\ RateUnchanged

\* resumeMonitor on both
twinResume ==
  /\ Served
  /\ DOMAIN monitors = {1, 2}
  /\ monitors' = [ id \in {1, 2} |-> resumeMonitorStmt(monitors[id]) ]
  /\ last' = [op |-> "twinResume", id |-> 0, args |-> << >>, before |-> None,
              result |-> None]
  /\ UNCHANGED <<now, pings, nextMonitorId, nextPingId>>
  /\ RateUnchanged

TwinCreate == \E n \in Names, s \in Schedules, g \in Graces : twinCreate(n, s, g)
TwinPing == \E in1 \in PingInputs, in2 \in PingInputs : twinPing(in1, in2)
TwinPause == \E r \in Reasons, u \in UntilInputs : twinPause(r, u)

TwinNext ==
  \/ TwinCreate
  \/ TwinPing
  \/ TwinPause
  \/ twinResume
  \/ Sweep
  \/ Tick

TwinSpec == Init /\ [][TwinNext]_vars

----------------------------------------------------------------------------
(* C17: the success/failure value (and duration, message, ip) of recorded  *)
(* pings has no effect on monitor status: two histories that differ only   *)
(* in these ping fields, with the same ping times and the same pause       *)
(* operations, yield the same status for every monitor at every time.      *)

C17_PingFieldsDoNotMatter ==
  DOMAIN monitors = {1, 2} =>
    /\ \A t \in StatusTimePoints :
         getMonitorStatus(rowToMonitor(monitors[1]), t)
           = getMonitorStatus(rowToMonitor(monitors[2]), t)
    /\ getMonitor(monitors, 1, now) = getMonitor(monitors, 2, now)

\* the two monitors have just been pinged, one with a success and one with a
\* failure that carries a duration, a message and an ip, and both are healthy
C17_Witness ==
  /\ last.op = "twinPing"
  /\ last.args[1].success /\ ~last.args[2].success
  /\ last.args[1].message # last.args[2].message
  /\ pings[Len(pings) - 1].status = "success"
  /\ pings[Len(pings)].status = "failure"
  /\ getMonitor(monitors, 1, now) = Some("healthy")
  /\ getMonitor(monitors, 2, now) = Some("healthy")

----------------------------------------------------------------------------
(* C18: deleting a monitor removes all of its pings and nothing else:      *)
(* after deleteMonitor(id) no stored ping references id, all other         *)
(* monitors and their pings are unchanged, and in every reachable state    *)
(* every stored ping references an existing monitor; deleting an unknown   *)
(* id reports not-found and changes nothing.                               *)

C18_DeleteStep ==
  StepOf("deleteMonitor") =>
    LET id == last'.id
    IN  IF id \in DOMAIN monitors
        THEN /\ last'.result = Some(TRUE)
             /\ DOMAIN monitors' = DOMAIN monitors \ {id}
             /\ \A j \in DOMAIN monitors' : monitors'[j] = monitors[j]
             /\ \A k \in 1..Len(pings') : pings'[k].monitor_id # id
             /\ pings' = SelectSeq(pings, LAMBDA p : p.monitor_id # id)
        ELSE /\ last'.result = Some(FALSE)
             /\ monitors' = monitors
             /\ pings' = pings

C18_PingsHaveMonitors ==
  \A k \in 1..Len(pings) : pings[k].monitor_id \in DOMAIN monitors

C18_DeleteCascades == [](C18_PingsHaveMonitors) /\ [][C18_DeleteStep]_vars

\* a pinged monitor has just been deleted and its ping with it
C18_Witness ==
  /\ last.op = "deleteMonitor"
  /\ last.result = Some(TRUE)
  /\ nextPingId = 2
  /\ pings = << >>
  /\ last.id \notin DOMAIN monitors

----------------------------------------------------------------------------
(* Aggregate counts (getStats, src/lib/storage.ts), read over a store that  *)
(* may already hold more pings of one monitor than the display window.      *)

\* getPingsForMonitor: ... ORDER BY timestamp DESC LIMIT 75
PING_LIMIT == 75

\* variant: the pings are counted through the display window of each monitor
countPings_displayed(rows, ids) ==
  LET shown(id) == Cardinality({k \in 1..Len(rows) : rows[k].monitor_id = id})
      capped(id) == IF shown(id) > PING_LIMIT THEN PING_LIMIT ELSE shown(id)
      sum[S \in SUBSET ids] ==
        IF S = {} THEN 0 ELSE LET i == CHOOSE i \in S : TRUE IN capped(i) + sum[S \ {i}]
  IN  sum[ids]

\* SELECT COUNT(*) as count FROM pings
countPings(rows, ids) == Len(rows)

\* all.filter(m => m.status === status).length
countStatus(rows, t, status) ==
  Cardinality({i \in DOMAIN rows : getMonitorStatus(rowToMonitor(rows[i]), t) = status})

getStatsResult(rows, pingRows, t) ==
  [ total |-> Cardinality(DOMAIN rows),
    healthy |-> countStatus(rows, t, "healthy"),
    late |-> countStatus(rows, t, "late"),
    down |-> countStatus(rows, t, "down"),
    paused |-> countStatus(rows, t, "paused"),
    totalPings |-> countPings(pingRows, DOMAIN rows) ]

\* GET /api/monitors?stats=true
getStats ==
  /\ last' = [op |-> "getStats", id |-> 0, args |-> << >>, before |-> None,
              result |-> Some(getStatsResult(monitors, pings, now))]
  /\ UNCHANGED now
  /\ StoreUnchanged
  /\ RateUnchanged

\* monitor 1 was created at minute 0 and pinged PING_LIMIT times since
StatsInit ==
  \E full \in BOOLEAN :
    LET created == [ id |-> 1, name |-> "backup", schedule |-> sched_1_minutes,
                     interval_minutes |-> parseScheduleInterval(sched_1_minutes),
                     grace_minutes |-> 1, last_ping |-> None,
                     created_at |-> toISOString(0), paused |-> 0,
                     paused_at |-> None, paused_until |-> None, pause_reason |-> None ]
    IN  /\ now = 0
        /\ monitors = IF full THEN 1 :> updateMonitorLastPing(created, toISOString(0))
                      ELSE << >>
        /\ pings = IF full
                   THEN [ k \in 1..PING_LIMIT |->
                            [ id |-> k - PING_LIMIT, monitor_id |-> 1,
                              timestamp |-> toISOString(0), status |-> "success",
                              duration |-> None, message |-> None, ip |-> None ] ]
                   ELSE << >>
        /\ nextMonitorId = IF full THEN 2 ELSE 1
        /\ nextPingId = 1
        /\ served = 0
        /\ rateLimitMap = << >>
        /\ attempts = << >>
        /\ pending = << >>
        /\ sweep = None
        /\ last = [op |-> "init", id |-> 0, args |-> << >>, before |-> None, result |-> None]

StatsCreate == createMonitor("backup", sched_1_minutes, 1)
StatsPing == \E id \in MonitorIds : recordPing(id, TRUE, None, None, None)
StatsPause == \E id \in MonitorIds : pauseMonitor(id, None, None)

StatsNext ==
  \/ StatsCreate
  \/ StatsPing
  \/ StatsPause
  \/ DeleteMonitor
  \/ getStats
  \/ Tick

StatsSpec == StatsInit /\ [][StatsNext]_vars

----------------------------------------------------------------------------
(* C19: in every reachable state the stats satisfy                          *)
(* total = healthy + late + down + paused, each monitor being counted in    *)
(* exactly one of the four states, and totalPings equals the number of      *)
(* pings stored across all monitors, not capped by the 75-ping display      *)
(* window.                                                                  *)

StatusNames == {"healthy", "late", "down", "paused"}

C19_Consistent(stats) ==
  /\ stats.total = stats.healthy + stats.late + stats.down + stats.paused
  /\ stats.total = Cardinality(DOMAIN monitors)
  /\ stats.totalPings = Len(pings)
  /\ stats.totalPings =
       Cardinality({k \in 1..Len(pings) : pings[k].monitor_id \in DOMAIN monitors})

C19_StatsAddUp ==
  /\ C19_Consistent(getStatsResult(monitors, pings, now))
  /\ \A i \in DOMAIN monitors : StatusNow(i) \in StatusNames
  /\ last.op = "getStats" =>
       C19_Consistent(Get(last.result))

\* the stats were read with more pings stored than the display window shows
C19_Witness ==
  /\ last.op = "getStats"
  /\ Get(last.result).totalPings = PING_LIMIT + 1
  /\ Get(last.result).total = 2
  /\ Get(last.result).paused = 1

----------------------------------------------------------------------------
(* The transaction of recordPing (src/lib/storage.ts): insertPing, then     *)
(* updateMonitorLastPing.  A statement may throw (SQLITE_FULL, SQLITE_BUSY, *)
(* a colliding id); failAt names the statement that does, 0 for none.       *)

FailPoints == {1, 2}

\* variant: the two statements run outside a transaction
transaction_noRollback(rows, pingRows, id, ping, failAt) ==
  LET inserted == Append(pingRows, ping)
      updated == [rows EXCEPT ![id] = updateMonitorLastPing(@, ping.timestamp)]
  IN  IF failAt = 1 THEN [monitors |-> rows, pings |-> pingRows, committed |-> FALSE]
      ELSE IF failAt = 2 THEN [monitors |-> rows, pings |-> inserted, committed |-> FALSE]
      ELSE [monitors |-> updated, pings |-> inserted, committed |-> TRUE]

\* db.transaction(() => { insertPing; updateMonitorLastPing }): an exception
\* rolls back what the function wrote
transaction(rows, pingRows, id, ping, failAt) ==
  LET inserted == Append(pingRows, ping)
      updated == [rows EXCEPT ![id] = updateMonitorLastPing(@, ping.timestamp)]
  IN  IF failAt \in FailPoints
      THEN [monitors |-> rows, pings |-> pingRows, committed |-> FALSE]
      ELSE [monitors |-> updated, pings |-> inserted, committed |-> TRUE]

\* recordPing of an existing monitor whose transaction throws
recordPingThrows(id, success, failAt) ==
  /\ Served
  /\ Exists(id)
  /\ nextPingId <= MaxPings
  /\ LET ping == [ id |-> nextPingId, monitor_id |-> id, timestamp |-> toISOString(now),
                   status |-> IF success THEN "success" ELSE "failure",
                   duration |-> None, message |-> None, ip |-> None ]
         tx == transaction(monitors, pings, id, ping, failAt)
     IN  /\ monitors' = tx.monitors
         /\ pings' = tx.pings
         /\ last' = [op |-> "recordPing: transaction failed", id |-> id,
                     args |-> <<success, failAt>>, before |-> None, result |-> None]
  /\ nextPingId' = nextPingId + 1
  /\ UNCHANGED <<now, nextMonitorId>>
  /\ RateUnchanged

RecordPingThrows ==
  \E id \in MonitorIds, success \in BOOLEAN, failAt \in FailPoints :
    recordPingThrows(id, success, failAt)

TxNext ==
  \/ CreateMonitor
  \/ UpdateMonitor
  \/ DeleteMonitor
  \/ RecordPing
  \/ RecordPingThrows
  \/ PauseMonitor
  \/ ResumeMonitor
  \/ Sweep
  \/ Tick

TxSpec == Init /\ [][TxNext]_vars

----------------------------------------------------------------------------
(* C20: after any sequence of create, ping, update, pause, resume, sweep    *)
(* and delete operations, including a ping whose transaction fails          *)
(* part-way, lastPing of every monitor is absent iff the monitor has no     *)
(* stored ping, and otherwise is the timestamp of its most recent stored    *)
(* ping; no ping row is stored without lastPing advanced, and lastPing is   *)
(* not advanced without the ping row.                                       *)

C20_LastPingOf(i) ==
  LET mine == PingsOf(i)
  IN  /\ (monitors[i].last_ping = None) <=> (mine = << >>)
      /\ mine # << >> =>
           /\ monitors[i].last_ping = Some(mine[Len(mine)].timestamp)
           /\ \A k \in 1..Len(mine) :
                DateParse(mine[k].timestamp) <= DateParse(Get(monitors[i].last_ping))

C20_LastPingMatchesPings == \A i \in DOMAIN monitors : C20_LastPingOf(i)

C20_FailedStep ==
  (served' = served + 1 /\ last'.op = "recordPing: transaction failed") =>
    /\ monitors' = monitors
    /\ pings' = pings

C20_PingAndLastPingTogether ==
  [](C20_LastPingMatchesPings) /\ [][C20_FailedStep]_vars

\* a ping failed at its second statement, on a monitor pinged a minute before
C20_Witness ==
  /\ last.op = "recordPing: transaction failed"
  /\ last.args[2] = 2
  /\ last.id \in DOMAIN monitors
  /\ Len(PingsOf(last.id)) = 1
  /\ DateParse(Get(monitors[last.id].last_ping)) < now

----------------------------------------------------------------------------
(* The storage module called directly: updateMonitor takes a                *)
(* Partial<Monitor>, so any subset of the fields may be present, and a      *)
(* schedule may be any string, the empty one included.                      *)

AnyUpdates ==
  { [NoUpdates EXCEPT !.schedule = s] : s \in {Some(<< >>), Some(sched_1_minutes), Some(sched_2_min)} }
  \cup { [NoUpdates EXCEPT !.paused = Some(b)] : b \in BOOLEAN }
  \cup { [NoUpdates EXCEPT !.pausedUntil = Some(toISOString(MsPerMinute))],
         [NoUpdates EXCEPT !.pauseReason = Some("maintenance")],
         [NoUpdates EXCEPT !.paused = Some(TRUE), !.pausedAt = Some(toISOString(0))],
         [NoUpdates EXCEPT !.graceMinutes = Some(1)],
         NoUpdates }

UpdateAny == \E id \in MonitorIds, u \in AnyUpdates : updateMonitor(id, u)
StorePause == \E id \in MonitorIds, u \in {None, Some(toISOString(MsPerMinute))} : pauseMonitor(id, None, u)
StorePing == \E id \in MonitorIds : recordPing(id, TRUE, None, None, None)

StoreNext ==
  \/ CreateMonitor
  \/ UpdateAny
  \/ StorePause
  \/ ResumeMonitor
  \/ Sweep
  \/ StorePing
  \/ Tick

StoreSpec == Init /\ [][StoreNext]_vars

----------------------------------------------------------------------------
(* C21: after any sequence of createMonitor, updateMonitor (with any        *)
(* partial update), pauseMonitor, resumeMonitor, sweep and recordPing       *)
(* calls, every monitor has pausedAt set iff paused is true, and            *)
(* pauseReason and pausedUntil absent whenever paused is false.             *)

C21_PauseFieldsOf(row) ==
  /\ IsSome(row.paused_at) <=> (row.paused = 1)
  /\ row.paused = 0 => (row.pause_reason = None /\ row.paused_until = None)

C21_PauseFieldsConsistent == \A i \in DOMAIN monitors : C21_PauseFieldsOf(monitors[i])

----------------------------------------------------------------------------
(* C22: after any sequence of createMonitor and updateMonitor calls (with   *)
(* or without a new schedule, for any schedule value), every stored         *)
(* monitor satisfies intervalMinutes = parseScheduleInterval(schedule).     *)

C22_IntervalFollowsSchedule ==
  \A i \in DOMAIN monitors :
    monitors[i].interval_minutes = parseScheduleInterval(monitors[i].schedule)

----------------------------------------------------------------------------
(* C23: pausing an already-paused monitor again only overwrites             *)
(* pauseReason and pausedUntil with the new arguments; paused stays true    *)
(* and pausedAt and every other field keep their values, so pausing twice   *)
(* with the same arguments leaves the same state as pausing once.           *)

C23_RepauseStep ==
  (StepOf("pauseMonitor") /\ last'.id \in DOMAIN monitors) =>
    LET id == last'.id
    IN  monitors[id].paused = 1 =>
          /\ monitors'[id] = [monitors[id] EXCEPT !.pause_reason = last'.args[1],
                                                  !.paused_until = last'.args[2]]
          /\ (<<monitors[id].pause_reason, monitors[id].paused_until>> = last'.args
                => monitors' = monitors)

C23_RepauseOverwritesReasonUntil == [][C23_RepauseStep]_vars

----------------------------------------------------------------------------
(* checkAndResumeMonitors statement by statement: the scan, then one        *)
(* resume write per id found.  `sweep` is the position of the running       *)
(* sweep: its now, the ids still to write and the ids resumed so far.       *)

InSweep == IsSome(sweep) /\ Get(sweep).toResume # << >>

\* variant: another handler runs between two statements of the sweep
RunToCompletion_preempted == TRUE

\* the function has no await and better-sqlite3 is synchronous: no other
\* handler of the process runs until it has returned
RunToCompletion == ~InSweep

\* const now = new Date().toISOString(); getPausedMonitorsToResume.all(now)
sweepScan ==
  /\ RunToCompletion
  /\ sweep' = Some([ now |-> now,
                     toResume |-> SetToSeq(getPausedMonitorsToResume(monitors, toISOString(now))),
                     resumed |-> << >> ])
  /\ last' = [op |-> "checkAndResumeMonitors: scan", id |-> 0, args |-> << >>,
              before |-> None, result |-> << >>]
  /\ UNCHANGED <<now, rateLimitMap, attempts, pending>>
  /\ StoreUnchanged

\* for (const { id } of toResume) { s.resumeMonitor.run(id); resumed.push(id) }
sweepWrite ==
  /\ InSweep
  /\ LET id == Head(Get(sweep).toResume)
     IN  /\ monitors' = [ i \in DOMAIN monitors |->
                            IF i = id THEN resumeMonitorStmt(monitors[i]) ELSE monitors[i] ]
         /\ sweep' = Some([Get(sweep) EXCEPT !.toResume = Tail(@), !.resumed = Append(@, id)])
         /\ last' = [op |-> "checkAndResumeMonitors: write", id |-> id, args |-> << >>,
                     before |-> IF id \in DOMAIN monitors THEN Some(monitors[id]) ELSE None,
                     result |-> Append(Get(sweep).resumed, id)]
  /\ UNCHANGED <<now, pings, nextMonitorId, nextPingId, served, rateLimitMap, attempts, pending>>

\* two monitors created at minute 0, each active or paused
SweepInit ==
  \E p1 \in {None} \cup {Some(u) : u \in UntilInputs},
     p2 \in {None, Some(Some(toISOString(MsPerMinute)))} :
    LET created(id) == [ id |-> id, name |-> "backup", schedule |-> sched_1_minutes,
                         interval_minutes |-> parseScheduleInterval(sched_1_minutes),
                         grace_minutes |-> 1, last_ping |-> None,
                         created_at |-> toISOString(0), paused |-> 0,
                         paused_at |-> None, paused_until |-> None, pause_reason |-> None ]
        row(id, p) == IF IsSome(p)
                      THEN pauseMonitorStmt(created(id), Some(toISOString(0)), Get(p), None)
                      ELSE created(id)
    IN  /\ now = 0
        /\ monitors = (1 :> row(1, p1)) @@ (2 :> row(2, p2))
        /\ pings = << >>
        /\ nextMonitorId = 3
        /\ nextPingId = 1
        /\ served = 0
        /\ rateLimitMap = << >>
        /\ attempts = << >>
        /\ pending = << >>
        /\ sweep = None
        /\ last = [op |-> "init", id |-> 0, args |-> << >>, before |-> None, result |-> None]

SweepTargets == {1, 2}

SweepPause ==
  /\ RunToCompletion
  /\ \E id \in SweepTargets, u \in UntilInputs : pauseMonitor(id, None, u)

SweepResume ==
  /\ RunToCompletion
  /\ \E id \in SweepTargets : resumeMonitor(id)

SweepPing ==
  /\ RunToCompletion
  /\ \E id \in SweepTargets : recordPing(id, TRUE, None, None, None)

SweepNext ==
  \/ SweepPause
  \/ SweepResume
  \/ SweepPing
  \/ sweepScan
  \/ sweepWrite
  \/ Tick

SweepSpec == SweepInit /\ [][SweepNext]_vars

----------------------------------------------------------------------------
(* C24: in every interleaving of a sweep with pause, resume, ping and       *)
(* further sweep operations on the same monitors, the pause sub-state is    *)
(* never partially cleared, a redundant sweep changes nothing, and the      *)
(* sweep never resumes a monitor whose pausedUntil at the moment of the     *)
(* write is absent or later than the sweep's now.                           *)

C24_PauseSubState ==
  \A i \in DOMAIN monitors :
    /\ IsSome(monitors[i].paused_at) <=> (monitors[i].paused = 1)
    /\ monitors[i].paused = 0 =>
         (monitors[i].paused_until = None /\ monitors[i].pause_reason = None)

C24_WriteStep ==
  (IsSome(sweep) /\ IsSome(sweep') /\ Len(Get(sweep').resumed) = Len(Get(sweep).resumed) + 1) =>
    LET id == Get(sweep').resumed[Len(Get(sweep').resumed)]
    IN  /\ id \in DOMAIN monitors
        /\ monitors[id].paused = 1
        /\ IsSome(monitors[id].paused_until)
        /\ DateParse(Get(monitors[id].paused_until)) <= Get(sweep).now
        /\ monitors'[id] = resumeMonitorStmt(monitors[id])
        /\ \A j \in DOMAIN monitors : j # id => monitors'[j] = monitors[j]
        /\ pings' = pings

\* a sweep that starts where a sweep has just finished, at the same instant
C24_RedundantScan ==
  ( /\ last.op \in {"checkAndResumeMonitors: scan", "checkAndResumeMonitors: write"}
    /\ ~InSweep
    /\ Get(sweep).now = now
    /\ last'.op = "checkAndResumeMonitors: scan" ) =>
      (Get(sweep').toResume = << >> /\ monitors' = monitors /\ pings' = pings)

C24_SweepSafeUnderInterleaving ==
  [](C24_PauseSubState) /\ [][C24_WriteStep /\ C24_RedundantScan]_vars

\* a sweep has resumed both monitors, after one of them was paused again
C24_Witness ==
  /\ last.op = "checkAndResumeMonitors: write"
  /\ IsSome(sweep)
  /\ Len(Get(sweep).resumed) = 2
  /\ Get(sweep).toResume = << >>
  /\ served >= 1
  /\ monitors[1].paused = 0 /\ monitors[2].paused = 0

----------------------------------------------------------------------------
(* Timeline reconstruction (buildPingDisplay, src/app/page.tsx) over the    *)
(* monitor object the dashboard receives: the row and its newest pings.     *)

MaxTimelineMinute == 4

\* a long outage: more missed runs than the timeline shows
FarMinute == 100

TimelinePoints ==
  { m * MsPerMinute + e : m \in 0..MaxTimelineMinute, e \in {0, 1} }
  \cup { FarMinute * MsPerMinute }

rowToPing(row) ==
  [ id |-> row.id, timestamp |-> row.timestamp, status |-> row.status,
    duration |-> row.duration, message |-> row.message, ip |-> row.ip ]

\* SELECT ... FROM pings WHERE monitor_id = ? ORDER BY timestamp DESC LIMIT 75
\* (the rows are stored in the order of their timestamps)
getPingsForMonitor(pingRows, id) ==
  LET mine == SelectSeq(pingRows, LAMBDA p : p.monitor_id = id)
      n == Len(mine)
      shown == IF n > PING_LIMIT THEN PING_LIMIT ELSE n
  IN  [ k \in 1..shown |-> rowToPing(mine[n + 1 - k]) ]

\* rowToMonitor(row, pings)
monitorWithPings(rows, pingRows, id) ==
  [ row |-> rowToMonitor(rows[id]), pings |-> getPingsForMonitor(pingRows, id) ]

\* a JS number that counts loop iterations: a finite integer or Infinity
Finite(n) == [finite |-> TRUE, n |-> n]
Infinity == [finite |-> FALSE, n |-> 0]

\* Math.floor(x / d) for x > 0, d >= 0
floorDiv(x, d) == IF d = 0 THEN Infinity ELSE Finite(x \div d)

\* Math.ceil(x / d) - 1 for x > 0, d >= 0
ceilDivMinus1(x, d) == IF d = 0 THEN Infinity ELSE Finite(CeilDiv(x, d) - 1)

\* monitor.intervalMinutes || parseScheduleInterval(monitor.schedule), in ms
displayIntervalMs(m) ==
  (IF m.row.intervalMinutes # 0 THEN m.row.intervalMinutes
   ELSE parseScheduleInterval(m.row.schedule)) * 60 * 1000

displayGraceMs(m) == m.row.graceMinutes * 60 * 1000

Marker(type, ping, timestamp) == [type |-> type, ping |-> ping, timestamp |-> timestamp]

\* Math.floor((timeSinceLastPing - graceMs) / intervalMs)
leadingMissedCount(m, t) ==
  floorDiv(t - DateParse(Get(m.row.lastPing)) - displayGraceMs(m), displayIntervalMs(m))

\* the markers pushed before the ping history
leadingMarkers(m, t) ==
  IF ~IsSome(m.row.lastPing) THEN << >>
  ELSE LET timeSinceLastPing == t - DateParse(Get(m.row.lastPing))
           intervalMs == displayIntervalMs(m)
           graceMs == displayGraceMs(m)
       IN  IF timeSinceLastPing > intervalMs /\ timeSinceLastPing <= intervalMs + graceMs
           THEN << Marker("late", None, Some(t)) >>
           ELSE IF timeSinceLastPing > intervalMs + graceMs
           THEN [ k \in 1..leadingMissedCount(m, t).n |->
                    Marker("missed", None, Some(t - (k - 1) * intervalMs)) ]
           ELSE << >>

\* variant: the missed runs of a gap are counted like those since the last ping
gapMissedCount_likeLeading(m, i) ==
  floorDiv(DateParse(m.pings[i].timestamp) - DateParse(m.pings[i + 1].timestamp)
             - displayGraceMs(m), displayIntervalMs(m))

\* Math.ceil(gap / intervalMs) - 1
gapMissedCount(m, i) ==
  ceilDivMinus1(DateParse(m.pings[i].timestamp) - DateParse(m.pings[i + 1].timestamp),
                displayIntervalMs(m))

\* the markers pushed after ping i
gapMarkers(m, i) ==
  IF i >= Len(m.pings) THEN << >>
  ELSE LET currentTime == DateParse(m.pings[i].timestamp)
           gap == currentTime - DateParse(m.pings[i + 1].timestamp)
           intervalMs == displayIntervalMs(m)
       IN  IF gap > intervalMs + displayGraceMs(m)
           THEN [ k \in 1..gapMissedCount(m, i).n |->
                    Marker("missed", None, Some(currentTime - k * intervalMs)) ]
           ELSE << >>

RECURSIVE historyFrom(_, _)
historyFrom(m, i) ==
  IF i > Len(m.pings) THEN << >>
  ELSE << Marker("ping", Some(m.pings[i]), None) >> \o gapMarkers(m, i) \o historyFrom(m, i + 1)

\* every for loop of the function has a finite number of iterations
loopsFinish(m, t) ==
  /\ ( /\ IsSome(m.row.lastPing)
       /\ t - DateParse(Get(m.row.lastPing)) > displayIntervalMs(m) + displayGraceMs(m) )
       => leadingMissedCount(m, t).finite
  /\ \A i \in 1..(Len(m.pings) - 1) :
       (DateParse(m.pings[i].timestamp) - DateParse(m.pings[i + 1].timestamp)
          > displayIntervalMs(m) + displayGraceMs(m))
         => gapMissedCount(m, i).finite

DISPLAY_LIMIT == 75

\* variant: the newest markers are cut off
slice_fromEnd(result, limit) ==
  IF Len(result) <= limit THEN result ELSE SubSeq(result, Len(result) - limit + 1, Len(result))

\* result.slice(0, limit)
slice(result, limit) ==
  IF Len(result) <= limit THEN result ELSE SubSeq(result, 1, limit)

\* `result` when the function reaches its return statement
pingDisplayResult(m, t) == leadingMarkers(m, t) \o historyFrom(m, 1)

\* what the call returns; None when a loop never ends
buildPingDisplay(m, t) ==
  IF loopsFinish(m, t) THEN Some(slice(pingDisplayResult(m, t), DISPLAY_LIMIT)) ELSE None

MaxTimelineRequests == 4

\* the dashboard fetches the monitors (one more request) and renders the
\* timeline of one of them
renderTimeline(id) ==
  /\ served < MaxTimelineRequests
  /\ served' = served + 1
  /\ Exists(id)
  /\ LET m == monitorWithPings(monitors, pings, id)
     IN  last' = [op |-> "buildPingDisplay", id |-> id, args |-> <<now>>,
                  before |-> Some(m), result |-> buildPingDisplay(m, now)]
  /\ UNCHANGED <<now, monitors, pings, nextMonitorId, nextPingId>>
  /\ RateUnchanged

\* schedules of POST /api/monitors: whatever schedulePattern accepts
TimelineSchedules == { s \in {sched_1_minutes, sched_2_min, sched_0_min} : schedulePattern(s) }

\* one monitor created at minute 0
TimelineInit ==
  \E s \in TimelineSchedules :
    /\ now = 0
    /\ monitors = 1 :> [ id |-> 1, name |-> "backup", schedule |-> s,
                         interval_minutes |-> parseScheduleInterval(s),
                         grace_minutes |-> 1, last_ping |-> None,
                         created_at |-> toISOString(0), paused |-> 0,
                         paused_at |-> None, paused_until |-> None, pause_reason |-> None ]
    /\ pings = << >>
    /\ nextMonitorId = 2
    /\ nextPingId = 1
    /\ served = 0
    /\ rateLimitMap = << >>
    /\ attempts = << >>
    /\ pending = << >>
    /\ sweep = None
    /\ last = [op |-> "init", id |-> 0, args |-> << >>, before |-> None, result |-> None]

TimelinePing == recordPing(1, TRUE, None, None, None)
TimelineTick == advanceClock(TimelinePoints)
RenderTimeline == renderTimeline(1)

TimelineNext ==
  \/ TimelinePing
  \/ TimelineTick
  \/ RenderTimeline

TimelineSpec == TimelineInit /\ [][TimelineNext]_vars

----------------------------------------------------------------------------
(* C25: timeline reconstruction emits, before the ping history, one late    *)
(* marker exactly when interval < now - lastPing <= interval + grace, and   *)
(* floor((now - lastPing - grace) / interval) missed markers (at least one) *)
(* exactly when now - lastPing > interval + grace, and nothing otherwise;   *)
(* between two consecutive recorded pings it inserts                        *)
(* ceil(gap / interval) - 1 missed markers (at least one) exactly when      *)
(* their gap exceeds interval + grace, and none otherwise.                  *)

PingPositions(R) == { k \in 1..Len(R) : R[k].type = "ping" }

NthPing(R, j) ==
  CHOOSE k \in PingPositions(R) : Cardinality({ x \in PingPositions(R) : x <= k }) = j

LeadLength(R) == IF PingPositions(R) = {} THEN Len(R) ELSE SetMin(PingPositions(R)) - 1

C25_LeadAsClaimed(m, t, R) ==
  LET I == displayIntervalMs(m)
      G == displayGraceMs(m)
      since == t - DateParse(Get(m.row.lastPing))
      lead == LeadLength(R)
  IN  IF ~IsSome(m.row.lastPing) THEN lead = 0
      ELSE IF I < since /\ since <= I + G
      THEN lead = 1 /\ R[1].type = "late"
      ELSE IF since > I + G
      THEN /\ lead = (since - G) \div I
           /\ lead >= 1
           /\ \A k \in 1..lead : R[k].type = "missed"
      ELSE lead = 0

C25_GapsAsClaimed(m, R) ==
  /\ Cardinality(PingPositions(R)) = Len(m.pings)
  /\ \A j \in 1..(Len(m.pings) - 1) :
       LET I == displayIntervalMs(m)
           gap == DateParse(m.pings[j].timestamp) - DateParse(m.pings[j + 1].timestamp)
           between == NthPing(R, j + 1) - NthPing(R, j) - 1
       IN  /\ IF gap > I + displayGraceMs(m)
              THEN between = CeilDiv(gap, I) - 1 /\ between >= 1
              ELSE between = 0
           /\ \A k \in (NthPing(R, j) + 1)..(NthPing(R, j + 1) - 1) : R[k].type = "missed"
  /\ Len(m.pings) > 0 => NthPing(R, Len(m.pings)) = Len(R)

C25_MarkersAsCounted ==
  (last.op = "buildPingDisplay" /\ IsSome(last.result)) =>
    LET m == Get(last.before)
        t == last.args[1]
        R == pingDisplayResult(m, t)
    IN  /\ C25_LeadAsClaimed(m, t, R)
        /\ C25_GapsAsClaimed(m, R)
        /\ Get(last.result) = SubSeq(R, 1, IF Len(R) > DISPLAY_LIMIT THEN DISPLAY_LIMIT ELSE Len(R))

\* a timeline with a late marker and missed runs in a gap between pings
C25_Witness ==
  /\ last.op = "buildPingDisplay"
  /\ IsSome(last.result)
  /\ LET R == Get(last.result)
     IN  /\ Len(R) < DISPLAY_LIMIT
         /\ Cardinality(PingPositions(R)) = 2
         /\ LeadLength(R) = 1 /\ R[1].type = "late"
         /\ NthPing(R, 2) - NthPing(R, 1) - 1 >= 2

----------------------------------------------------------------------------
(* C26: for every monitor and time, the timeline output has at most 75      *)
(* markers, the synthetic now-relative markers come before all real pings,  *)
(* the real pings appear in the same newest-first order as the input with   *)
(* no ping duplicated or reordered, truncation only drops markers from the  *)
(* old end, and reconstruction changes no field of the monitor or its       *)
(* pings.                                                                   *)

MarkerTime(marker) ==
  IF marker.type = "ping" THEN DateParse(Get(marker.ping).timestamp) ELSE Get(marker.timestamp)

PingsShown(out) ==
  [ j \in 1..Cardinality(PingPositions(out)) |-> Get(out[NthPing(out, j)].ping) ]

C26_Ordered(m, t, out) ==
  /\ Len(out) <= DISPLAY_LIMIT
  /\ \A k \in 1..LeadLength(out) :
       /\ out[k].type \in {"late", "missed"}
       /\ MarkerTime(out[k]) <= t
       /\ Len(m.pings) > 0 => MarkerTime(out[k]) > DateParse(m.pings[1].timestamp)
  /\ \A k \in (LeadLength(out) + 1)..Len(out) :
       /\ out[k].type \in {"ping", "missed"}
       /\ MarkerTime(out[k]) <= DateParse(m.pings[1].timestamp)
  /\ PingsShown(out) = SubSeq(m.pings, 1, Cardinality(PingPositions(out)))
  /\ \A k \in 1..(Len(out) - 1) : MarkerTime(out[k]) >= MarkerTime(out[k + 1])

C26_CutAtOldEnd(R, out) ==
  /\ Len(out) = (IF Len(R) > DISPLAY_LIMIT THEN DISPLAY_LIMIT ELSE Len(R))
  /\ out = SubSeq(R, 1, Len(out))
  /\ \A k \in (Len(out) + 1)..Len(R) :
       Len(out) > 0 => MarkerTime(R[k]) <= MarkerTime(out[Len(out)])

C26_TimelineShape ==
  (last.op = "buildPingDisplay" /\ IsSome(last.result)) =>
    LET m == Get(last.before)
        t == last.args[1]
    IN  /\ C26_Ordered(m, t, Get(last.result))
        /\ C26_CutAtOldEnd(pingDisplayResult(m, t), Get(last.result))

C26_RenderStep ==
  (last'.op = "buildPingDisplay" /\ served' = served + 1) =>
    /\ monitors' = monitors
    /\ pings' = pings
    /\ Get(last'.before) = monitorWithPings(monitors', pings', last'.id)

C26_TimelineBoundedOrdered == [](C26_TimelineShape) /\ [][C26_RenderStep]_vars

\* a timeline cut at 75 markers inside the gap between two pings
C26_Witness ==
  /\ last.op = "buildPingDisplay"
  /\ IsSome(last.result)
  /\ Len(Get(last.result)) = DISPLAY_LIMIT
  /\ Get(last.result)[1].type = "ping"
  /\ Len(Get(last.before).pings) = 2
  /\ Len(pingDisplayResult(Get(last.before), last.args[1])) > DISPLAY_LIMIT

----------------------------------------------------------------------------
(* C27: timeline reconstruction terminates for every monitor that can be    *)
(* created through the validated API (any schedule the validation accepts,  *)
(* grace between 1 and 1440, any ping history) and every current time: the  *)
(* loops that emit missed markers run a finite number of iterations.        *)

C27_TimelineTerminates ==
  /\ \A i \in DOMAIN monitors :
       ( /\ schedulePattern(monitors[i].schedule)
         /\ monitors[i].grace_minutes \in 1..1440 )
         => loopsFinish(monitorWithPings(monitors, pings, i), now)
  /\ last.op = "buildPingDisplay" => IsSome(last.result)

----------------------------------------------------------------------------
(* C28: in every interleaving of a POST /api/ping/{id} request with a       *)
(* deletion of the same monitor, a response with status ok means exactly    *)
(* one ping was recorded and its id is returned as ping_id; if the monitor  *)
(* no longer exists when the ping is to be written, the request is          *)
(* answered as not-found rather than as success.                            *)

C28_PostStep ==
  PostAnswered =>
    LET id == last'.id
        r == Get(last'.result)
    IN  /\ r.status = 200 =>
             /\ id \in DOMAIN monitors
             /\ Len(pings') = Len(pings) + 1
             /\ SubSeq(pings', 1, Len(pings)) = pings
             /\ pings'[Len(pings')].monitor_id = id
             /\ r.pingId = Some(pings'[Len(pings')].id)
        /\ (id \notin DOMAIN monitors /\ r.status \notin {429, 400}) =>
             (r.status = 404 /\ pings' = pings)

C28_OkMeansRecorded == [][C28_PostStep]_vars

----------------------------------------------------------------------------
(* C29: pausing does not stop ping recording: a ping sent to a paused       *)
(* monitor is recorded and advances lastPing while the status stays paused  *)
(* and the pause fields stay unchanged, and after a later resume the status *)
(* is computed from that advanced lastPing.                                 *)

C29_PingWhilePausedStep ==
  (StepOf("recordPing") /\ last'.id \in DOMAIN monitors) =>
    LET id == last'.id
    IN  monitors[id].paused = 1 =>
          /\ Len(pings') = Len(pings) + 1
          /\ pings'[Len(pings')].monitor_id = id
          /\ DateParse(pings'[Len(pings')].timestamp) = now
          /\ IsSome(last'.result)
          /\ monitors'[id] = [monitors[id] EXCEPT !.last_ping = Some(toISOString(now))]
          /\ getMonitorStatus(rowToMonitor(monitors'[id]), now) = "paused"

C29_ResumeStep ==
  (StepOf("resumeMonitor") /\ last'.id \in DOMAIN monitors) =>
    LET id == last'.id
    IN  /\ monitors'[id].last_ping = monitors[id].last_ping
        /\ last'.result = Some(RowTimedStatus(monitors[id], now))
        /\ getMonitorStatus(rowToMonitor(monitors'[id]), now) = RowTimedStatus(monitors[id], now)

C29_PausedMonitorStillPinged == [][C29_PingWhilePausedStep /\ C29_ResumeStep]_vars

\* resumed a minute after a ping that arrived during the pause: healthy
C29_Witness ==
  /\ last.op = "resumeMonitor"
  /\ IsSome(last.before)
  /\ Get(last.before).paused = 1
  /\ Get(last.before).last_ping = Some(toISOString(MsPerMinute))
  /\ DateParse(Get(Get(last.before).paused_at)) < MsPerMinute
  /\ now = 2 * MsPerMinute
  /\ last.result = Some("healthy")

----------------------------------------------------------------------------
(* C30: for every schedule string accepted by the create/update validation  *)
(* pattern (including any run of whitespace between words and the          *)
(* min/mins/minute(s)/hour(s) spellings), parseScheduleInterval returns the *)
(* interval of the form the validation recognised (N, 60*N, 1, 60, 1440 or  *)
(* 10080) and never falls through to the 1440 default for a minute, hour    *)
(* or week schedule.                                                        *)

\* the interval of the alternative of schedulePattern that schedule matches
RecognisedInterval(schedule) ==
  LET l == toLowerCase(schedule)
      a == Len(lit_every) + 1
      b == RunEnd(l, a, SpaceChars)
      c == RunEnd(l, b, DigitSet)
      d == RunEnd(l, c, SpaceChars)
      unit == SubSeq(l, d, Len(l))
      word == SubSeq(l, b, Len(l))
  IN  IF l = lit_daily THEN 1440
      ELSE IF l = lit_weekly THEN 10080
      ELSE IF c > b
      THEN (IF unit \in {lit_hour, lit_hours} THEN 60 * Decimal(l, b, c) ELSE Decimal(l, b, c))
      ELSE IF word = lit_minute THEN 1
      ELSE IF word = lit_hour THEN 60
      ELSE IF word = lit_day THEN 1440
      ELSE 10080

C30_ValidatedScheduleParsed ==
  \A id \in DOMAIN monitors :
    schedulePattern(monitors[id].schedule) =>
      /\ parseScheduleInterval(monitors[id].schedule) = RecognisedInterval(monitors[id].schedule)
      /\ monitors[id].interval_minutes = RecognisedInterval(monitors[id].schedule)

====
